---- MODULE Spec2Model ----
(***************************************************************************)
(* Monte Carlo race simulator of wca-odds-next (server/src/utils):         *)
(* simulate_round / run_simulations (simulation/run.rs), the scoring rule  *)
(* calculate_average (wca/events.rs), the rank and histogram accumulators  *)
(* (charts/models.rs), the chart builders (charts/builder.rs) and the      *)
(* competitor model (competitor/model.rs, statistics.rs, loader.rs).       *)
(*                                                                         *)
(* Specifications over the same variables:                                 *)
(*   SpecRound  : one call of simulate_round, one solve position per step  *)
(*   Spec       : run_simulations, one contestant round or one ranking     *)
(*                pass per step, then finalisation and format_results      *)
(*   SpecSolo   : Spec for one contestant mixing overrides and statistics  *)
(*   SpecPodium : Spec for a roster of four                                *)
(*   SpecMerge  : maybe_merge_points on the raw points of a chart          *)
(*   SpecLoad   : CompetitorContext::load with calculate_stats             *)
(*   SpecFinalize : the finalisation of run_simulations at the trial       *)
(*                counts of the routes                                     *)
(*   SpecChart  : HistogramChartBuilder / IndividualHistogramBuilder with  *)
(*                the HistogramKeys iterator, one key per step             *)
(*   SpecId     : clean_and_validate_wca_id on one competitor id           *)
(*   SpecStats  : calc_weighted_stats, trim_outliers and                   *)
(*                fit_weighted_skewnorm in f32 arithmetic                  *)
(* Random draws are inputs chosen from RngOutcomes; floats that only act   *)
(* as ratios are kept as integer numerators or exact fractions, and the    *)
(* statistics of SpecStats are computed with f32 rounding.                 *)
(***************************************************************************)
EXTENDS Integers, Sequences, FiniteSets, TLC

VARIABLES competitors, event_type, include_dnf, simulation_count,
          trial, idx, round_results, ranks, hist_single, hist_average,
          win_counts, pod_counts, total_ranks, sim_results, results,
          rank_histogram, pc,
          solves, pos, drawn, avg,
          generated_count, finished_count,
          request, dated_results, load_pc, loaded,
          points, merged, merge_pc,
          builder, key_iter, keys, chart, chart_pc,
          wca_id, cleaned, id_pc,
          samples, sample_stats, trimmed_data, fit, stat_pc

runVars == <<competitors, event_type, include_dnf, simulation_count,
             trial, idx, round_results, ranks, hist_single, hist_average,
             win_counts, pod_counts, total_ranks, sim_results, results,
             rank_histogram, pc, solves, pos, drawn, avg,
             generated_count, finished_count>>

loadVars == <<request, dated_results, load_pc, loaded>>

mergeVars == <<points, merged, merge_pc>>

\* the histogram chart being built
chartVars == <<builder, key_iter, keys, chart, chart_pc>>

\* the competitor id being validated
idVars == <<wca_id, cleaned, id_pc>>

\* the samples whose statistics are being computed
statVars == <<samples, sample_stats, trimmed_data, fit, stat_pc>>

sideVars == <<chartVars, idVars, statVars>>

vars == <<runVars, loadVars, mergeVars, sideVars>>

\* no request being loaded
LoadIdle ==
    /\ request = <<>>
    /\ dated_results = <<>>
    /\ load_pc = "idle"
    /\ loaded = <<>>

\* no chart being built
MergeIdle ==
    /\ points = <<>>
    /\ merged = <<>>
    /\ merge_pc = "idle"

\* no histogram chart being built
ChartIdle ==
    /\ builder = <<>>
    /\ key_iter = <<>>
    /\ keys = <<>>
    /\ chart = <<>>
    /\ chart_pc = "idle"

\* no competitor id being validated
IdIdle ==
    /\ wca_id = <<>>
    /\ cleaned = <<>>
    /\ id_pc = "idle"

\* no statistics being computed
StatIdle ==
    /\ samples = <<>>
    /\ sample_stats = <<>>
    /\ trimmed_data = <<>>
    /\ fit = <<>>
    /\ stat_pc = "idle"

SideIdle == ChartIdle /\ IdIdle /\ StatIdle

(***************************************************************************)
(* Program constants                                                       *)
(***************************************************************************)
DNF_VALUE == 60 * 60 * 100 + 1

AO5_SOLVE_COUNT == 5

BO5_SOLVE_COUNT == 5

MO3_SOLVE_COUNT == 3

BO3_SOLVE_COUNT == 3

SOLVES_LEN == 5

EventType == {"Ao5", "Bo5", "Mo3", "Bo3", "Fmc"}

(***************************************************************************)
(* Bounds of the model                                                     *)
(***************************************************************************)
MaxEntered == 5

MaxCompetitors == 2

MaxTrials == 2

(***************************************************************************)
(* Input domains                                                           *)
(***************************************************************************)
\* values a caller may put in entered_results (unvalidated i32): forced DNF,
\* no override, an ordinary value, a value above the DNF sentinel
OverrideValues == {-1, 0, 16, 400000}

\* one call's worth of random numbers: u is the uniform sample (percent),
\* raw is xi + omega * z after the cast to i32
RngOutcomes == {[u |-> 0, raw |-> 25], [u |-> 99, raw |-> 26],
                [u |-> 99, raw |-> -5], [u |-> 99, raw |-> 400000]}

NoStats == [some |-> FALSE, nan |-> FALSE, dnf_rate |-> 0, num_non_dnf_results |-> 0]

\* stats fitted with a DNF rate of 50 percent from 7 valid samples
Fitted == [some |-> TRUE, nan |-> FALSE, dnf_rate |-> 50, num_non_dnf_results |-> 7]

\* stats whose location or shape is NaN
FittedNan == [some |-> TRUE, nan |-> TRUE, dnf_rate |-> 0, num_non_dnf_results |-> 7]

StatsKinds == {NoStats, Fitted, FittedNan}

SeqsUpTo(S, n) == UNION {[1..k -> S] : k \in 0..n}

(***************************************************************************)
(* Arithmetic helpers                                                      *)
(***************************************************************************)
\* i32 division truncates toward zero
TruncDiv(a, b) == IF a >= 0 THEN a \div b ELSE -((-a) \div b)

\* i32 remainder takes the sign of the dividend
TruncRem(a, b) == a - b * TruncDiv(a, b)

MaxOf(a, b) == IF a >= b THEN a ELSE b

MinOfSet(S) == CHOOSE x \in S : \A y \in S : x <= y

MaxOfSet(S) == CHOOSE x \in S : \A y \in S : x >= y

RECURSIVE SumSeq(_)
SumSeq(s) == IF s = <<>> THEN 0 ELSE Head(s) + SumSeq(Tail(s))

RECURSIVE MinSeq(_)
MinSeq(s) == IF Len(s) = 1 THEN s[1]
             ELSE LET m == MinSeq(Tail(s)) IN IF s[1] <= m THEN s[1] ELSE m

RECURSIVE InsertSorted(_, _)
InsertSorted(x, s) == IF s = <<>> THEN <<x>>
                      ELSE IF x <= Head(s) THEN <<x>> \o s
                      ELSE <<Head(s)>> \o InsertSorted(x, Tail(s))

\* slice::sort_unstable on i32: equal integers are indistinguishable
RECURSIVE SortUnstable(_)
SortUnstable(s) == IF s = <<>> THEN <<>>
                   ELSE InsertSorted(Head(s), SortUnstable(Tail(s)))

(***************************************************************************)
(* wca/events.rs                                                           *)
(***************************************************************************)
num_solves(e) == CASE e = "Ao5" -> AO5_SOLVE_COUNT
                   [] e = "Bo5" -> BO5_SOLVE_COUNT
                   [] e = "Mo3" -> MO3_SOLVE_COUNT
                   [] e = "Fmc" -> MO3_SOLVE_COUNT
                   [] e = "Bo3" -> BO3_SOLVE_COUNT

is_fmc(e) == e = "Fmc"

\* Ao5 arm with the DNF test on the third-smallest solve
calculate_average_ao5_third(s) ==
    LET sorted == SortUnstable(s) IN
    IF sorted[3] >= DNF_VALUE THEN DNF_VALUE
    ELSE TruncDiv(sorted[2] + sorted[3] + sorted[4], 3)

\* Ao5 arm without the sort
calculate_average_ao5_unsorted(s) ==
    IF s[4] >= DNF_VALUE THEN DNF_VALUE
    ELSE TruncDiv(s[2] + s[3] + s[4], 3)

\* EventType::Ao5 arm of calculate_average
calculate_average_ao5(s) ==
    LET sorted == SortUnstable(s) IN
    IF sorted[4] >= DNF_VALUE THEN DNF_VALUE
    ELSE TruncDiv(sorted[2] + sorted[3] + sorted[4], 3)

\* Mo3 | Fmc arm with the nudge applied to every format
calculate_average_mo3_nudge_all(s, e) ==
    LET active_solves == SubSeq(s, 1, 3) IN
    IF \E i \in 1..3 : active_solves[i] >= DNF_VALUE THEN DNF_VALUE
    ELSE LET mean == TruncDiv(SumSeq(active_solves), 3) IN
         IF TruncRem(mean, 10) = 6 THEN mean + 1 ELSE mean

\* EventType::Mo3 | EventType::Fmc arm of calculate_average
calculate_average_mo3(s, e) ==
    LET active_solves == SubSeq(s, 1, 3) IN
    IF \E i \in 1..3 : active_solves[i] >= DNF_VALUE THEN DNF_VALUE
    ELSE LET mean == TruncDiv(SumSeq(active_solves), 3) IN
         IF e = "Fmc" /\ TruncRem(mean, 10) = 6 THEN mean + 1 ELSE mean

\* EventType::Bo3 arm of calculate_average
calculate_average_bo3(s) == MinSeq(SubSeq(s, 1, 3))

\* EventType::Bo5 arm of calculate_average
calculate_average_bo5(s) == MinSeq(s)

\* the value returned by calculate_average
calculate_average(s, e) ==
    CASE e = "Ao5" -> calculate_average_ao5(s)
      [] e \in {"Mo3", "Fmc"} -> calculate_average_mo3(s, e)
      [] e = "Bo3" -> calculate_average_bo3(s)
      [] e = "Bo5" -> calculate_average_bo5(s)

\* the slice after the call: the Ao5 arm sorts it in place
SolvesAfterAverage(s, e) == IF e = "Ao5" THEN SortUnstable(s) ELSE s

(***************************************************************************)
(* charts/models.rs, simulation/run.rs accumulators                        *)
(***************************************************************************)
\* HistogramAccumulator::record
\* an entry set to 1 on every record instead of being incremented
record_overwrite(counts, key) ==
    [k \in DOMAIN counts \cup {key} |-> IF k = key THEN 1 ELSE counts[k]]

record(counts, key) ==
    IF key \in DOMAIN counts THEN [counts EXCEPT ![key] = @ + 1]
    ELSE [k \in DOMAIN counts \cup {key} |-> IF k = key THEN 1 ELSE counts[k]]

EmptyHist == [k \in {} |-> 0]

truncate_for_histogram(input, fmc) == IF fmc THEN input ELSE TruncDiv(input, 10) * 10

record_single(hist, solve, fmc) == record(hist, truncate_for_histogram(solve, fmc))

record_average(hist, solve, fmc) == record(hist, truncate_for_histogram(solve, fmc))

\* record_rank counting wins only
record_rank_wins_only(counts, rank) ==
    IF rank = 0 THEN [counts EXCEPT ![1] = @ + 1] ELSE counts

\* RankAccumulator::record_rank, rank counted from 0, counts indexed from 1
record_rank(counts, rank) == [counts EXCEPT ![rank + 1] = @ + 1]

(***************************************************************************)
(* simulation/run.rs: one solve                                            *)
(***************************************************************************)
generate_skewnorm_value(stats, rng, incl_dnf) ==
    IF stats.nan THEN DNF_VALUE
    ELSE IF incl_dnf /\ rng.u < stats.dnf_rate THEN DNF_VALUE
    ELSE MaxOf(rng.raw, 1)

\* entered_results.get(i).copied().unwrap_or(0), i counted from 0
ManualTime(comp, i) ==
    IF i + 1 <= Len(comp.entered_results) THEN comp.entered_results[i + 1] ELSE 0

\* the loop body with the value generated before the override is looked at
SolveAtDrawFirst(comp, e, incl_dnf, i, rng, cur) ==
    LET manual_time == IF i + 1 <= Len(comp.entered_results)
                       THEN comp.entered_results[i + 1] ELSE 0
        val == IF comp.stats.some
               THEN IF comp.stats.nan THEN DNF_VALUE
                    ELSE IF incl_dnf /\ rng.u < comp.stats.dnf_rate THEN DNF_VALUE
                    ELSE MaxOf(rng.raw, 1)
               ELSE 0
    IN
    IF manual_time # 0
    THEN [solve |-> IF manual_time < 0 THEN DNF_VALUE ELSE manual_time,
          val |-> val, recorded |-> FALSE]
    ELSE IF comp.stats.some
    THEN [solve |-> IF e = "Fmc" THEN val * 100 ELSE val,
          val |-> val, recorded |-> val < DNF_VALUE]
    ELSE [solve |-> cur, val |-> 0, recorded |-> FALSE]

\* the loop body of simulate_round at position i, cur being the value the
\* array holds there: the solve stored, the value generated (0 when
\* generate_skewnorm_value is not called) and whether the solve goes to the
\* single histogram
SolveAt(comp, e, incl_dnf, i, rng, cur) ==
    LET manual_time == ManualTime(comp, i) IN
    IF manual_time # 0
    THEN [solve |-> IF manual_time < 0 THEN DNF_VALUE ELSE manual_time,
          val |-> 0, recorded |-> FALSE]
    ELSE IF comp.stats.some
    THEN LET val == generate_skewnorm_value(comp.stats, rng, incl_dnf) IN
         [solve |-> IF e = "Fmc" THEN val * 100 ELSE val,
          val |-> val, recorded |-> val < DNF_VALUE]
    ELSE [solve |-> cur, val |-> 0, recorded |-> FALSE]

\* a solves array initialised with zeros
InitialSolvesZero == [i \in 1..SOLVES_LEN |-> 0]

\* let mut solves = [DNF_VALUE; 5]
InitialSolves == [i \in 1..SOLVES_LEN |-> DNF_VALUE]

NoDraws == [i \in 1..SOLVES_LEN |-> 0]

(***************************************************************************)
(* SpecRound: simulate_round for one contestant, position by position      *)
(***************************************************************************)
RoundCompetitors ==
    {[entered_results |-> er, stats |-> st] :
        er \in SeqsUpTo(OverrideValues, MaxEntered), st \in StatsKinds}

InitRound ==
    /\ \E c \in RoundCompetitors : competitors = <<c>>
    /\ event_type \in EventType
    /\ include_dnf \in BOOLEAN
    /\ simulation_count = 1
    /\ trial = 0
    /\ idx = 0
    /\ round_results = <<>>
    /\ ranks = <<<<0>>>>
    /\ hist_single = <<EmptyHist>>
    /\ hist_average = <<EmptyHist>>
    /\ win_counts = <<>>
    /\ pod_counts = <<>>
    /\ total_ranks = <<>>
    /\ sim_results = <<>>
    /\ results = <<>>
    /\ pc = "solve"
    /\ solves = InitialSolves
    /\ pos = 0
    /\ drawn = NoDraws
    /\ avg = 0
    /\ generated_count = <<0>>
    /\ finished_count = <<0>>
    /\ rank_histogram = <<>>
    /\ LoadIdle
    /\ MergeIdle
    /\ SideIdle

\* one iteration of the loop over solves.iter_mut().take(count)
RoundSolve ==
    /\ pc = "solve"
    /\ pos < num_solves(event_type)
    /\ \E rng \in RngOutcomes :
         LET r == SolveAt(competitors[1], event_type, include_dnf, pos, rng,
                          solves[pos + 1]) IN
         /\ solves' = [solves EXCEPT ![pos + 1] = r.solve]
         /\ drawn' = [drawn EXCEPT ![pos + 1] = r.val]
         /\ hist_single' = IF r.recorded
                           THEN <<record_single(hist_single[1], r.solve, is_fmc(event_type))>>
                           ELSE hist_single
    /\ pos' = pos + 1
    /\ UNCHANGED <<competitors, event_type, include_dnf, simulation_count, trial, idx,
                   round_results, ranks, hist_average, results, pc, avg,
                   win_counts, pod_counts, total_ranks, sim_results,
                   generated_count, finished_count,
                   rank_histogram, loadVars, mergeVars, sideVars>>

\* the closing call calculate_average(&mut solves, *event_type)
RoundAverage ==
    /\ pc = "solve"
    /\ pos = num_solves(event_type)
    /\ avg' = calculate_average(solves, event_type)
    /\ solves' = SolvesAfterAverage(solves, event_type)
    /\ pc' = "returned"
    /\ UNCHANGED <<competitors, event_type, include_dnf, simulation_count, trial, idx,
                   round_results, ranks, hist_single, hist_average, results, pos, drawn,
                   win_counts, pod_counts, total_ranks, sim_results,
                   generated_count, finished_count,
                   rank_histogram, loadVars, mergeVars, sideVars>>

NextRound == RoundSolve \/ RoundAverage

SpecRound == InitRound /\ [][NextRound]_vars

(***************************************************************************)
(* Spec: run_simulations over a roster                                     *)
(***************************************************************************)
\* the contestant kinds of the roster: no history, fitted history, the
\* scenario-B override
NoData == [entered_results |-> <<>>, stats |-> NoStats]

FittedOnly == [entered_results |-> <<>>, stats |-> Fitted]

ManualOnly == [entered_results |-> <<1000, 1000, 1000>>, stats |-> NoStats]

RosterKinds == {NoData, FittedOnly, ManualOnly}

\* the random numbers of one round: one outcome per solve position
SlowDraw == [u |-> 0, raw |-> 1000]

FastDraw == [u |-> 99, raw |-> 990]

DrawStreams == {[i \in 1..SOLVES_LEN |-> SlowDraw],
                [i \in 1..SOLVES_LEN |-> FastDraw]}

\* simulate_round from position i on: the solves array and the single
\* histogram after the loop
RECURSIVE SimulateFrom(_, _, _, _, _, _, _)
SimulateFrom(comp, e, incl_dnf, stream, i, s, hist) ==
    IF i >= num_solves(e) THEN [solves |-> s, hist |-> hist]
    ELSE LET r == SolveAt(comp, e, incl_dnf, i, stream[i + 1], s[i + 1]) IN
         SimulateFrom(comp, e, incl_dnf, stream, i + 1,
                      [s EXCEPT ![i + 1] = r.solve],
                      IF r.recorded THEN record_single(hist, r.solve, is_fmc(e)) ELSE hist)

\* simulate_round: the round result and the single histogram afterwards
simulate_round(comp, e, incl_dnf, stream, hist) ==
    LET r == SimulateFrom(comp, e, incl_dnf, stream, 0, InitialSolves, hist) IN
    [avg |-> calculate_average(r.solves, e), hist |-> r.hist]

\* the trial's results left in roster order, as if the sort were missing
SortUnstableByKeyNoSort(rr) == {rr}

\* the orders sort_unstable_by_key may leave round_results in: sorted by the
\* round result, elements with equal results in any order
SortUnstableByKey(rr) ==
    LET n == Len(rr)
        perms == {p \in [1..n -> 1..n] : \A i, j \in 1..n : i # j => p[i] # p[j]}
    IN {[i \in 1..n |-> rr[p[i]]] : p \in
          {q \in perms : \A i \in 1..(n - 1) : rr[q[i]][2] <= rr[q[i + 1]][2]}}

\* add_rank loop giving tied contestants the same (best) rank
RECURSIVE AddRanksShared(_, _, _)
AddRanksShared(rk, sorted, rank) ==
    IF rank >= Len(sorted) THEN rk
    ELSE LET original_idx == sorted[rank + 1][1]
             shared == Cardinality({j \in 1..Len(sorted) : sorted[j][2] < sorted[rank + 1][2]})
         IN AddRanksShared([rk EXCEPT ![original_idx + 1] = record_rank(@, shared)],
                           sorted, rank + 1)

\* the loop calling add_rank: element at position rank + 1 gets rank
RECURSIVE AddRanks(_, _, _)
AddRanks(rk, sorted, rank) ==
    IF rank >= Len(sorted) THEN rk
    ELSE LET original_idx == sorted[rank + 1][1] IN
         AddRanks([rk EXCEPT ![original_idx + 1] = record_rank(@, rank)], sorted, rank + 1)

\* rank statistics with the podium taken as the first two ranks
RankStatsOfTopTwo(counts, sample_count) ==
    [probabilities |-> counts,
     sample_count |-> sample_count,
     win_probability |-> IF Len(counts) >= 1 THEN counts[1] ELSE 0,
     podium_probability |-> SumSeq(SubSeq(counts, 1, IF Len(counts) < 2 THEN Len(counts) ELSE 2)),
     expected_rank |-> SumSeq([r \in 1..Len(counts) |-> r * counts[r]])]

\* RankAccumulator::into_rank_stats and the RankStats getters, probabilities
\* kept as numerators over sample_count
RankStatsOf(counts, sample_count) ==
    [probabilities |-> counts,
     sample_count |-> sample_count,
     win_probability |-> IF Len(counts) >= 1 THEN counts[1] ELSE 0,
     podium_probability |-> SumSeq(SubSeq(counts, 1, IF Len(counts) < 3 THEN Len(counts) ELSE 3)),
     expected_rank |-> SumSeq([r \in 1..Len(counts) |-> r * counts[r]])]

\* the loop of the counter-based run_simulations over the sorted trial:
\* wins for rank 0, podiums for rank < 3, rank + 1 added to the rank total
RECURSIVE UpdateStats(_, _, _)
UpdateStats(c, sorted, rank) ==
    IF rank >= Len(sorted) THEN c
    ELSE LET original_idx == sorted[rank + 1][1] IN
         UpdateStats(
           [win_counts |-> IF rank = 0
                           THEN [c.win_counts EXCEPT ![original_idx + 1] = @ + 1]
                           ELSE c.win_counts,
            pod_counts |-> IF rank < 3
                           THEN [c.pod_counts EXCEPT ![original_idx + 1] = @ + 1]
                           ELSE c.pod_counts,
            total_ranks |-> [c.total_ranks EXCEPT ![original_idx + 1] = @ + rank + 1]],
           sorted, rank + 1)

\* HIST_INCLUDE_THRESHOLD = 0.0001 as a fraction
HIST_INCLUDE_THRESHOLD == [num |-> 1, den |-> 10000]

\* a filter that also drops the buckets holding exactly min_count entries
into_histogram_data_above(counts, sample_count, scale_factor, min_threshold) ==
    LET min_count == TruncDiv(min_threshold.num * sample_count, min_threshold.den)
        kept == {k \in DOMAIN counts : counts[k] > min_count}
    IN [bins |-> [k \in kept |-> counts[k] * scale_factor],
        sample_count |-> sample_count]

\* HistogramAccumulator::into_histogram_data: buckets with fewer than
\* min_count entries are dropped, the others hold count * scale_factor over
\* sample_count (the value is kept as that numerator)
into_histogram_data(counts, sample_count, scale_factor, min_threshold) ==
    LET min_count == TruncDiv(min_threshold.num * sample_count, min_threshold.den)
        kept == {k \in DOMAIN counts : counts[k] >= min_count}
    IN [bins |-> [k \in kept |-> counts[k] * scale_factor],
        sample_count |-> sample_count]

\* a single-result scale of 100 for every format
single_scale_full(e) == 100

\* single_scale of CompetitorAccumulator::finalize, an integer division
single_scale(e) == TruncDiv(100, num_solves(e))

\* CompetitorAccumulator::finalize
finalize(rank_counts, single, average, sample_count, e) ==
    [rank_stats |-> RankStatsOf(rank_counts, sample_count),
     hist_single |-> into_histogram_data(single, sample_count, single_scale(e),
                                         HIST_INCLUDE_THRESHOLD),
     hist_average |-> into_histogram_data(average, sample_count, 100,
                                          HIST_INCLUDE_THRESHOLD)]

\* the name of the contestant at roster position i
CompetitorName(i) == "P" \o ToString(i)

\* a rank chart whose points are named by the rank index counted from 0
into_chart_data_zero_based(series) ==
    LET labels == [i \in 1..Len(series) |-> series[i].name] IN
    IF series = <<>> THEN [labels |-> labels, data |-> <<>>]
    ELSE LET rank_count == Len(series[1].stats.probabilities) IN
         [labels |-> labels,
          data |-> [r \in 1..rank_count |->
                      [name |-> ToString(r - 1),
                       values |-> [i \in 1..Len(series) |->
                                     LET dist == series[i].stats.probabilities IN
                                     (IF r <= Len(dist) THEN dist[r] ELSE 0) * 100]]]]

\* RankChartBuilder::into_chart_data; r is rank_idx + 1, values are
\* numerators over the sample count
into_chart_data(series) ==
    LET labels == [i \in 1..Len(series) |-> series[i].name] IN
    IF series = <<>> THEN [labels |-> labels, data |-> <<>>]
    ELSE LET rank_count == Len(series[1].stats.probabilities) IN
         [labels |-> labels,
          data |-> [r \in 1..rank_count |->
                      [name |-> ToString(r),
                       values |-> [i \in 1..Len(series) |->
                                     LET dist == series[i].stats.probabilities IN
                                     (IF r <= Len(dist) THEN dist[r] ELSE 0) * 100]]]]

\* generate_rank_chart: every contestant added to the builder in order
generate_rank_chart(input) == into_chart_data(input)

\* format_results: the per-contestant fields taken from the run
CompetitorSimulationResult(comp, rank_stats) ==
    [expected_rank |-> rank_stats.expected_rank,
     win_chance |-> rank_stats.win_probability,
     pod_chance |-> rank_stats.podium_probability,
     denominator |-> rank_stats.sample_count,
     rank_distribution |-> rank_stats.probabilities,
     sample_size |-> IF comp.stats.some THEN comp.stats.num_non_dnf_results ELSE 0]

\* the round result recorded whether or not it is DNF
RecordRoundResultAlways(hist, res, fmc) == record_average(hist, res, fmc)

\* if avg != DNF_VALUE { record_average(avg, is_fmc) }
RecordRoundResult(hist, res, fmc) ==
    IF res # DNF_VALUE THEN record_average(hist, res, fmc) ELSE hist

\* history: the number of solve positions of one round at which
\* generate_skewnorm_value is called and returns a value below the DNF value
GeneratedIn(comp, e, incl_dnf, stream) ==
    Cardinality({i \in 0..(num_solves(e) - 1) :
        /\ ManualTime(comp, i) = 0
        /\ comp.stats.some
        /\ generate_skewnorm_value(comp.stats, stream[i + 1], incl_dnf) < DNF_VALUE})

\* the run's state at entry for a given set of rosters; generated_count and
\* finished_count are history variables counting, per contestant, the
\* non-DNF generated values and the non-DNF round results so far
InitWith(rosters) ==
    /\ competitors \in rosters
    /\ event_type \in EventType
    /\ include_dnf \in BOOLEAN
    /\ simulation_count \in 1..MaxTrials
    /\ trial = 0
    /\ idx = 0
    /\ round_results = <<>>
    /\ ranks = [i \in 1..Len(competitors) |-> [r \in 1..Len(competitors) |-> 0]]
    /\ hist_single = [i \in 1..Len(competitors) |-> EmptyHist]
    /\ hist_average = [i \in 1..Len(competitors) |-> EmptyHist]
    /\ win_counts = [i \in 1..Len(competitors) |-> 0]
    /\ pod_counts = [i \in 1..Len(competitors) |-> 0]
    /\ total_ranks = [i \in 1..Len(competitors) |-> 0]
    /\ sim_results = <<>>
    /\ results = <<>>
    /\ pc = "rounds"
    /\ solves = InitialSolves
    /\ pos = 0
    /\ drawn = NoDraws
    /\ avg = 0
    /\ generated_count = [i \in 1..Len(competitors) |-> 0]
    /\ finished_count = [i \in 1..Len(competitors) |-> 0]
    /\ rank_histogram = <<>>
    /\ LoadIdle
    /\ MergeIdle
    /\ SideIdle

Init == InitWith(UNION {[1..n -> RosterKinds] : n \in 1..MaxCompetitors})

\* body of the loop over competitors.iter().enumerate()
SimulateCompetitor ==
    /\ pc = "rounds"
    /\ idx < Len(competitors)
    /\ \E stream \in DrawStreams :
         LET r == simulate_round(competitors[idx + 1], event_type, include_dnf,
                                 stream, hist_single[idx + 1]) IN
         /\ hist_single' = [hist_single EXCEPT ![idx + 1] = r.hist]
         /\ hist_average' = [hist_average EXCEPT ![idx + 1] =
                                RecordRoundResult(@, r.avg, is_fmc(event_type))]
         /\ round_results' = Append(round_results, <<idx, r.avg>>)
         /\ generated_count' = [generated_count EXCEPT ![idx + 1] =
                @ + GeneratedIn(competitors[idx + 1], event_type, include_dnf, stream)]
         /\ finished_count' = [finished_count EXCEPT ![idx + 1] =
                                 IF r.avg = DNF_VALUE THEN @ ELSE @ + 1]
    /\ idx' = idx + 1
    /\ UNCHANGED <<competitors, event_type, include_dnf, simulation_count, trial,
                   ranks, results, pc, solves, pos, drawn, avg,
                   win_counts, pod_counts, total_ranks, sim_results,
                   rank_histogram, loadVars, mergeVars, sideVars>>

\* the sort and the add_rank loop closing one trial
RankTrial ==
    /\ pc = "rounds"
    /\ idx = Len(competitors)
    /\ \E sorted \in SortUnstableByKey(round_results) :
         /\ ranks' = AddRanks(ranks, sorted, 0)
         /\ LET c == UpdateStats([win_counts |-> win_counts, pod_counts |-> pod_counts,
                                  total_ranks |-> total_ranks], sorted, 0) IN
            /\ win_counts' = c.win_counts
            /\ pod_counts' = c.pod_counts
            /\ total_ranks' = c.total_ranks
         /\ round_results' = sorted
    /\ trial' = trial + 1
    /\ pc' = IF trial + 1 < simulation_count THEN "next_trial" ELSE "finalize"
    /\ UNCHANGED <<competitors, event_type, include_dnf, simulation_count, idx,
                   hist_single, hist_average, results, solves, pos, drawn, avg,
                   sim_results,
                   generated_count, finished_count,
                   rank_histogram, loadVars, mergeVars, sideVars>>

\* the next iteration of the loop over 0..simulation_count
NextTrial ==
    /\ pc = "next_trial"
    /\ round_results' = <<>>
    /\ idx' = 0
    /\ pc' = "rounds"
    /\ UNCHANGED <<competitors, event_type, include_dnf, simulation_count, trial,
                   ranks, hist_single, hist_average, results, solves, pos, drawn, avg,
                   win_counts, pod_counts, total_ranks, sim_results,
                   generated_count, finished_count,
                   rank_histogram, loadVars, mergeVars, sideVars>>

\* finalize of every accumulator, then format_results
Finalize ==
    /\ pc = "finalize"
    /\ LET fin == [i \in 1..Len(competitors) |->
                     finalize(ranks[i], hist_single[i], hist_average[i],
                              simulation_count, event_type)] IN
       /\ sim_results' = fin
       /\ results' = [i \in 1..Len(competitors) |->
                        CompetitorSimulationResult(competitors[i], fin[i].rank_stats)]
       /\ rank_histogram' = generate_rank_chart(
                                [i \in 1..Len(competitors) |->
                                   [name |-> CompetitorName(i), stats |-> fin[i].rank_stats]])
    /\ pc' = "done"
    /\ UNCHANGED <<competitors, event_type, include_dnf, simulation_count, trial, idx,
                   round_results, ranks, hist_single, hist_average, solves, pos, drawn, avg,
                   win_counts, pod_counts, total_ranks,
                   generated_count, finished_count,
                   loadVars, mergeVars, sideVars>>

Next == SimulateCompetitor \/ RankTrial \/ NextTrial \/ Finalize

Spec == Init /\ [][Next]_vars

(***************************************************************************)
(* SpecSolo: run_simulations for a single contestant mixing overrides and  *)
(* fitted statistics                                                       *)
(***************************************************************************)
\* an override, a free position and a forced DNF, with fitted statistics
PartlyManual == [entered_results |-> <<1000, 0, -1>>, stats |-> Fitted]

\* every position of every format overridden, with fitted statistics
FullyManual == [entered_results |-> <<16, 16, 16, 16, 16>>, stats |-> Fitted]

\* overrides above the DNF value, which nothing validates
AboveSentinel == [entered_results |-> <<400000, 400000, 400000>>, stats |-> NoStats]

SoloKinds == {FittedOnly, ManualOnly, PartlyManual, FullyManual, AboveSentinel}

InitSolo == InitWith({<<c>> : c \in SoloKinds})

SpecSolo == InitSolo /\ [][Next]_vars

(***************************************************************************)
(* SpecPodium: run_simulations for rosters of four contestants, so that a  *)
(* rank outside the podium exists                                          *)
(***************************************************************************)
PodiumRosters == {<<FittedOnly, FittedOnly, ManualOnly, NoData>>}

InitPodium == InitWith(PodiumRosters)

SpecPodium == InitPodium /\ [][Next]_vars

(***************************************************************************)
(* SpecFinalize: the finalisation of run_simulations entered after the     *)
(* trial counts of the server and of a caller, with the histograms of one  *)
(* fitted contestant filled by the trials                                  *)
(***************************************************************************)
\* SIMULATION_COUNT of routes/simulation.rs, NUM_SIMULATIONS of
\* routes/history.rs, and a count between them chosen by another caller
SampleCounts == {5000, 15000, 100000}

\* the entries of the least filled bucket of a histogram in units of
\* HIST_INCLUDE_THRESHOLD * sample_count: none, one entry, and the counts
\* around that product
LowCounts(n) == {0, 1, (n \div 10000) - 1, n \div 10000, (n \div 10000) + 1} \cap Nat

\* a histogram of total entries over two neighbouring buckets, low of them
\* in the lower bucket
TwoBuckets(e, low, total) ==
    LET k == IF is_fmc(e) THEN 100000 ELSE 1000
        j == IF is_fmc(e) THEN 99900 ELSE 990
    IN IF low = 0 THEN (k :> total) ELSE (j :> low) @@ (k :> (total - low))

InitFinalize ==
    /\ competitors = <<FittedOnly>>
    /\ event_type \in EventType
    /\ include_dnf = FALSE
    /\ simulation_count \in SampleCounts
    /\ trial = simulation_count
    /\ idx = 1
    /\ round_results = <<<<0, 1000>>>>
    /\ ranks = <<<<simulation_count>>>>
    /\ \E low \in LowCounts(simulation_count) :
          hist_single = <<TwoBuckets(event_type, low,
                                     num_solves(event_type) * simulation_count)>>
    /\ \E low \in LowCounts(simulation_count) :
          hist_average = <<TwoBuckets(event_type, low, simulation_count)>>
    /\ win_counts = <<simulation_count>>
    /\ pod_counts = <<simulation_count>>
    /\ total_ranks = <<simulation_count>>
    /\ sim_results = <<>>
    /\ results = <<>>
    /\ pc = "finalize"
    /\ solves = InitialSolves
    /\ pos = 0
    /\ drawn = NoDraws
    /\ avg = 0
    /\ generated_count = <<num_solves(event_type) * simulation_count>>
    /\ finished_count = <<simulation_count>>
    /\ rank_histogram = <<>>
    /\ LoadIdle
    /\ MergeIdle
    /\ SideIdle

NextFinalize == Finalize

SpecFinalize == InitFinalize /\ [][NextFinalize]_vars

(***************************************************************************)
(* SpecMerge: HistogramChartBuilder::maybe_merge_points applied to the     *)
(* points of a roster-wide chart                                           *)
(***************************************************************************)
\* the largest number of raw points of a chart
MaxPoints == 520

\* idle state of the simulator variables
RunIdle ==
    /\ competitors = <<>>
    /\ event_type = "Ao5"
    /\ include_dnf = FALSE
    /\ simulation_count = 1
    /\ trial = 0
    /\ idx = 0
    /\ round_results = <<>>
    /\ ranks = <<>>
    /\ hist_single = <<>>
    /\ hist_average = <<>>
    /\ win_counts = <<>>
    /\ pod_counts = <<>>
    /\ total_ranks = <<>>
    /\ sim_results = <<>>
    /\ results = <<>>
    /\ rank_histogram = <<>>
    /\ pc = "idle"
    /\ solves = InitialSolves
    /\ pos = 0
    /\ drawn = NoDraws
    /\ avg = 0
    /\ generated_count = <<>>
    /\ finished_count = <<>>

RECURSIVE Pow2(_)
Pow2(k) == IF k <= 0 THEN 1 ELSE 2 * Pow2(k - 1)

\* (len as f64).log2().ceil() for len >= 1: the least l with 2^l >= len
RECURSIVE CeilLog2From(_, _, _)
CeilLog2From(len, l, p) == IF p >= len THEN l ELSE CeilLog2From(len, l + 1, 2 * p)

CeilLog2(len) == CeilLog2From(len, 0, 1)

\* points.chunks(size): consecutive chunks, the last one possibly shorter
Chunks(pts, size) ==
    [c \in 1..((Len(pts) + size - 1) \div size) |->
        SubSeq(pts, (c - 1) * size + 1,
               IF c * size < Len(pts) THEN c * size ELSE Len(pts))]

\* the sum of series i over the points of a chunk
RECURSIVE ChunkSum(_, _)
ChunkSum(chunk, i) ==
    IF chunk = <<>> THEN 0 ELSE chunk[1].values[i].num + ChunkSum(Tail(chunk), i)

\* merged points averaged over the merge factor whatever the chunk length
maybe_merge_points_by_factor(pts, num_series) ==
    IF pts = <<>> THEN pts
    ELSE LET log_len == CeilLog2(Len(pts)) IN
         IF log_len <= 8 THEN pts
         ELSE LET merge_factor == Pow2(log_len - 8)
                  chunks == Chunks(pts, merge_factor)
              IN [c \in 1..Len(chunks) |->
                    [name |-> chunks[c][1].name,
                     values |-> [i \in 1..num_series |->
                                   [num |-> ChunkSum(chunks[c], i),
                                    den |-> merge_factor]]]]

\* HistogramChartBuilder::maybe_merge_points; a value is the fraction
\* num / den, raw values having den 1 and merged ones the chunk length
maybe_merge_points(pts, num_series) ==
    IF pts = <<>> THEN pts
    ELSE LET log_len == CeilLog2(Len(pts)) IN
         IF log_len <= 8 THEN pts
         ELSE LET merge_factor == Pow2(log_len - 8)
                  chunks == Chunks(pts, merge_factor)
              IN [c \in 1..Len(chunks) |->
                    [name |-> chunks[c][1].name,
                     values |-> [i \in 1..num_series |->
                                   [num |-> ChunkSum(chunks[c], i),
                                    den |-> Len(chunks[c])]]]]

\* raw_points of build: one point per key, named by the key, holding one
\* value per series; the values follow one of two shapes
RawPoints(n, num_series, shape) ==
    [k \in 1..n |->
       [name |-> ToString(10 * k),
        values |-> [i \in 1..num_series |->
                      [num |-> IF shape = "flat" THEN i ELSE (k * (i + 2)) % 7,
                       den |-> 1]]]]

InitMerge ==
    /\ \E n \in 0..MaxPoints, num_series \in 1..2, shape \in {"flat", "ramp"} :
          points = RawPoints(n, num_series, shape)
    /\ merged = <<>>
    /\ merge_pc = "raw"
    /\ RunIdle
    /\ LoadIdle
    /\ SideIdle

\* let final_data = Self::maybe_merge_points(raw_points, self.series.len())
MergePoints ==
    /\ merge_pc = "raw"
    /\ merged' = maybe_merge_points(points,
                     IF points = <<>> THEN 0 ELSE Len(points[1].values))
    /\ merge_pc' = "merged"
    /\ UNCHANGED <<points, runVars, loadVars, sideVars>>

NextMerge == MergePoints

SpecMerge == InitMerge /\ [][NextMerge]_vars

(***************************************************************************)
(* SpecLoad: CompetitorContext::load for a request naming one competitor,  *)
(* with Competitor::new and calculate_stats (competitor/model.rs,          *)
(* competitor/statistics.rs).  The f32 quantities are kept as exact        *)
(* fractions; squares of differences exceed the integer range and are      *)
(* kept as digit sequences.                                                *)
(***************************************************************************)
\* the largest number of dated result sets of a competitor
MaxSets == 2

\* half_life of the request, an unvalidated f32: a positive and a negative one
HalfLife == 30

HalfLives == {HalfLife, -HalfLife}

\* days_since is 0 or AgeSpan half-lives
AgeSpan == 2

DaysSince == {0, AgeSpan * HalfLife}

\* the values of one date as the database returns them: DNF (-1), no result
\* (0), ordinary results, an outlier, the value of DNF_VALUE
ResultSets == {<<-1>>, <<0>>, <<1000>>, <<1000, 1000>>, <<9000>>, <<DNF_VALUE>>}

DatedCompetitionResult ==
    {[days_since |-> d, results |-> r] : d \in DaysSince, r \in ResultSets}

\* event_id of the request, the last one unknown to from_id
EventIds == {"333", "333bf", "666", "333fm", "444bf", "magic"}

\* EventType::from_id
from_id(id) ==
    IF id \in {"222", "333", "444", "555", "333oh", "minx", "pyram", "clock",
               "skewb", "sq1"} THEN [some |-> TRUE, event |-> "Ao5"]
    ELSE IF id = "333bf" THEN [some |-> TRUE, event |-> "Bo5"]
    ELSE IF id \in {"666", "777"} THEN [some |-> TRUE, event |-> "Mo3"]
    ELSE IF id = "333fm" THEN [some |-> TRUE, event |-> "Fmc"]
    ELSE IF id \in {"444bf", "555bf"} THEN [some |-> TRUE, event |-> "Bo3"]
    ELSE [some |-> FALSE, event |-> ""]

\* natural numbers beyond the integer range: digits to base BigBase, least
\* significant first, without leading zeros
BigBase == 1000

RECURSIVE Big(_)
Big(n) == IF n = 0 THEN <<>> ELSE <<n % BigBase>> \o Big(n \div BigBase)

RECURSIVE BigNorm(_)
BigNorm(a) ==
    IF a = <<>> THEN a
    ELSE IF a[Len(a)] = 0 THEN BigNorm(SubSeq(a, 1, Len(a) - 1)) ELSE a

RECURSIVE BigAddCarry(_, _, _)
BigAddCarry(a, b, carry) ==
    IF a = <<>> /\ b = <<>> THEN Big(carry)
    ELSE LET t == (IF a = <<>> THEN 0 ELSE a[1]) + (IF b = <<>> THEN 0 ELSE b[1]) + carry IN
         <<t % BigBase>> \o BigAddCarry(IF a = <<>> THEN a ELSE Tail(a),
                                        IF b = <<>> THEN b ELSE Tail(b),
                                        t \div BigBase)

BigAdd(a, b) == BigNorm(BigAddCarry(a, b, 0))

RECURSIVE BigScale(_, _, _)
BigScale(a, d, carry) ==
    IF a = <<>> THEN Big(carry)
    ELSE LET t == a[1] * d + carry IN
         <<t % BigBase>> \o BigScale(Tail(a), d, t \div BigBase)

RECURSIVE BigMul(_, _)
BigMul(a, b) ==
    IF b = <<>> THEN <<>>
    ELSE BigAdd(BigScale(a, b[1], 0), BigNorm(<<0>> \o BigMul(a, Tail(b))))

BigLeq(a, b) ==
    IF Len(a) # Len(b) THEN Len(a) < Len(b)
    ELSE LET diff == {i \in 1..Len(a) : a[i] # b[i]} IN
         \/ diff = {}
         \/ LET m == CHOOSE i \in diff : \A j \in diff : j <= i IN a[m] < b[m]

\* the square of an integer
BigSquare(d) == LET m == IF d < 0 THEN -d ELSE d IN BigMul(Big(m), Big(m))

\* the weight (-decay_rate * days_since).exp() = 2^(-days_since / halflife),
\* times the common factor 2^AgeSpan that cancels in every ratio
Weight(days_since, halflife) == Pow2(AgeSpan - days_since \div halflife)

\* Competitor::apply_weights: pairs <<time, weight>> in input order
RECURSIVE apply_weights(_, _)
apply_weights(res, halflife) ==
    IF res = <<>> THEN <<>>
    ELSE LET set == Head(res)
             weight == Weight(set.days_since, halflife)
         IN [k \in 1..Len(set.results) |-> <<set.results[k], weight>>]
              \o apply_weights(Tail(res), halflife)

\* WeightedStats::default()
WeightedStatsDefault ==
    [mean |-> [num |-> 0, den |-> 1], variance |-> [num |-> <<>>, den |-> 1]]

\* calc_weighted_stats: mean = weighted_sum / total_weight and, for more
\* than one entry, variance = weighted_sq_diff / (total_weight *
\* (effective_n - 1) / effective_n), as fractions; stdev is its square root
calc_weighted_stats(data) ==
    IF data = <<>> THEN WeightedStatsDefault
    ELSE LET total_weight == SumSeq([k \in 1..Len(data) |-> data[k][2]])
             weighted_sum == SumSeq([k \in 1..Len(data) |-> data[k][1] * data[k][2]])
             sum_sq_weights == SumSeq([k \in 1..Len(data) |-> data[k][2] * data[k][2]])
             SqDiff[k \in 0..Len(data)] ==
                 IF k = 0 THEN <<>>
                 ELSE BigAdd(SqDiff[k - 1],
                             BigMul(Big(data[k][2]),
                                    BigSquare(data[k][1] * total_weight - weighted_sum)))
         IN IF total_weight <= 0 THEN WeightedStatsDefault
            ELSE [mean |-> [num |-> weighted_sum, den |-> total_weight],
                  variance |-> IF Len(data) > 1
                               THEN [num |-> SqDiff[Len(data)],
                                     den |-> total_weight
                                             * (total_weight * total_weight - sum_sq_weights)]
                               ELSE [num |-> <<>>, den |-> 1]]

\* trim_outliers: val <= (mean + stdev * 2.0) as i32, for an integer val the
\* same as val <= mean or (val - mean)^2 <= 4 * variance
trim_outliers(data, stats) ==
    LET t == stats.mean.den
        keep(e) ==
           LET d == e[1] * t - stats.mean.num IN
           \/ d <= 0
           \/ BigLeq(BigMul(BigSquare(d), Big(stats.variance.den)),
                     BigMul(Big(4 * t * t), stats.variance.num))
    IN SelectSeq(data, keep)

\* fit_weighted_skewnorm: stdev == 0 gives alpha 0, omega 1 and xi = mean;
\* otherwise alpha, omega and xi are the method-of-moments values, which
\* are not rational and are represented by the moments they are taken from
fit_weighted_skewnorm(data) ==
    LET stats == calc_weighted_stats(data) IN
    [degenerate |-> stats.variance.num = <<>>,
     mean |-> stats.mean,
     variance |-> stats.variance]

\* calculate_stats with the mean taken from the trimmed data
calculate_stats_trimmed_mean(res, halflife) ==
    LET weighted == apply_weights(res, halflife) IN
    IF weighted = <<>> THEN [some |-> FALSE]
    ELSE LET dnf_sum == SumSeq([k \in 1..Len(weighted) |->
                                  IF weighted[k][1] < 0 THEN weighted[k][2] ELSE 0])
             total_w == SumSeq([k \in 1..Len(weighted) |-> weighted[k][2]])
             dnf_rate == IF total_w > 0 THEN [num |-> dnf_sum, den |-> total_w]
                         ELSE [num |-> 0, den |-> 1]
             valid_times == SelectSeq(weighted, LAMBDA e : e[1] > 0)
         IN IF valid_times = <<>> THEN [some |-> FALSE]
            ELSE LET stats == calc_weighted_stats(valid_times)
                     trimmed == trim_outliers(valid_times, stats)
                     params == fit_weighted_skewnorm(trimmed)
                 IN [some |-> TRUE,
                     params |-> params,
                     dnf_rate |-> dnf_rate,
                     mean |-> params.mean,
                     num_non_dnf_results |-> Len(valid_times)]

\* Competitor::calculate_stats; params stands for location, shape and skew
calculate_stats(res, halflife) ==
    LET weighted == apply_weights(res, halflife) IN
    IF weighted = <<>> THEN [some |-> FALSE]
    ELSE LET dnf_sum == SumSeq([k \in 1..Len(weighted) |->
                                  IF weighted[k][1] < 0 THEN weighted[k][2] ELSE 0])
             total_w == SumSeq([k \in 1..Len(weighted) |-> weighted[k][2]])
             dnf_rate == IF total_w > 0 THEN [num |-> dnf_sum, den |-> total_w]
                         ELSE [num |-> 0, den |-> 1]
             valid_times == SelectSeq(weighted, LAMBDA e : e[1] > 0)
         IN IF valid_times = <<>> THEN [some |-> FALSE]
            ELSE LET stats == calc_weighted_stats(valid_times)
                     trimmed == trim_outliers(valid_times, stats)
                     params == fit_weighted_skewnorm(trimmed)
                 IN [some |-> TRUE,
                     params |-> params,
                     dnf_rate |-> dnf_rate,
                     mean |-> stats.mean,
                     num_non_dnf_results |-> Len(valid_times)]

\* Competitor::new
CompetitorNew(res, halflife) ==
    [entered_results |-> <<>>, stats |-> calculate_stats(res, halflife)]

InitLoad ==
    /\ request \in [event_id : EventIds, half_life : HalfLives]
    /\ dated_results \in SeqsUpTo(DatedCompetitionResult, MaxSets)
    /\ load_pc = "start"
    /\ loaded = <<>>
    /\ RunIdle
    /\ MergeIdle
    /\ SideIdle

\* EventType::from_id(event_id).ok_or_else(BadRequest)?
LoadEvent ==
    /\ load_pc = "start"
    /\ load_pc' = IF from_id(request.event_id).some THEN "fetch" ELSE "bad_request"
    /\ UNCHANGED <<request, dated_results, loaded, runVars, mergeVars, sideVars>>

\* the competitor built from the rows fetched for its id
LoadCompetitors ==
    /\ load_pc = "fetch"
    /\ loaded' = [competitors |-> <<CompetitorNew(dated_results, request.half_life)>>,
                  event_type |-> from_id(request.event_id).event]
    /\ load_pc' = "loaded"
    /\ UNCHANGED <<request, dated_results, runVars, mergeVars, sideVars>>

NextLoad == LoadEvent \/ LoadCompetitors

SpecLoad == InitLoad /\ [][NextLoad]_vars

(***************************************************************************)
(* SpecChart: the histogram charts of charts/histogram.rs and              *)
(* charts/builder.rs.  HistogramChartBuilder::build lays several           *)
(* contestants' histograms over one key sequence, and                      *)
(* IndividualHistogramBuilder::build does so for the two histograms of one *)
(* contestant.  The key iterator advances one key per step.                *)
(***************************************************************************)
PAD_AMOUNT_CS == 20

PAD_AMOUNT_MOVES == 100

\* the widest distance, in buckets of 10, between two keys of a histogram
MaxSpread == 255

\* Option::None
None == [some |-> FALSE]

\* a pad of one step of the key sequence
HistogramKeys_new_pad_step(min, max, fmc, average) ==
    LET pad_amount == IF fmc THEN PAD_AMOUNT_MOVES ELSE 10
        start_val == MaxOf(min - pad_amount, 0)
        decimals == TruncRem(start_val, 100)
        is_valid == IF fmc THEN decimals = 0 \/ decimals = 33 \/ decimals = 67
                    ELSE TruncRem(start_val, 10) = 0
    IN IF ~is_valid THEN None
       ELSE [some |-> TRUE,
             iter |-> [count |-> start_val, max |-> max + pad_amount,
                       is_fmc |-> fmc, is_average |-> average]]

\* a start accepted whatever its residue
HistogramKeys_new_unchecked(min, max, fmc, average) ==
    LET pad_amount == IF fmc THEN PAD_AMOUNT_MOVES ELSE PAD_AMOUNT_CS
        start_val == MaxOf(min - pad_amount, 0)
    IN [some |-> TRUE,
        iter |-> [count |-> start_val, max |-> max + pad_amount,
                  is_fmc |-> fmc, is_average |-> average]]

\* HistogramKeys::new
HistogramKeys_new(min, max, fmc, average) ==
    LET pad_amount == IF fmc THEN PAD_AMOUNT_MOVES ELSE PAD_AMOUNT_CS
        start_val == MaxOf(min - pad_amount, 0)
        decimals == TruncRem(start_val, 100)
        is_valid == IF fmc THEN decimals = 0 \/ decimals = 33 \/ decimals = 67
                    ELSE TruncRem(start_val, 10) = 0
    IN IF ~is_valid THEN None
       ELSE [some |-> TRUE,
             iter |-> [count |-> start_val, max |-> max + pad_amount,
                       is_fmc |-> fmc, is_average |-> average]]

\* an iterator that stops before a key equal to max
HistogramKeys_next_exclusive(it) ==
    IF it.count >= it.max THEN [some |-> FALSE, iter |-> it]
    ELSE LET decimals == TruncRem(it.count, 100)
             count == IF it.is_fmc /\ it.is_average /\ decimals = 0 THEN it.count + 33
                      ELSE IF it.is_fmc /\ it.is_average /\ decimals = 33 THEN it.count + 34
                      ELSE IF it.is_fmc /\ it.is_average /\ decimals = 67 THEN it.count + 33
                      ELSE IF it.is_fmc /\ ~it.is_average THEN it.count + 100
                      ELSE it.count + 10
         IN [some |-> TRUE, value |-> it.count, iter |-> [it EXCEPT !.count = count]]

\* HistogramKeys::next: the value yielded and the iterator after the call
HistogramKeys_next(it) ==
    IF it.count > it.max THEN [some |-> FALSE, iter |-> it]
    ELSE LET decimals == TruncRem(it.count, 100)
             count == IF it.is_fmc /\ it.is_average /\ decimals = 0 THEN it.count + 33
                      ELSE IF it.is_fmc /\ it.is_average /\ decimals = 33 THEN it.count + 34
                      ELSE IF it.is_fmc /\ it.is_average /\ decimals = 67 THEN it.count + 33
                      ELSE IF it.is_fmc /\ ~it.is_average THEN it.count + 100
                      ELSE it.count + 10
         IN [some |-> TRUE, value |-> it.count, iter |-> [it EXCEPT !.count = count]]

\* HistogramData::get; a value is the numerator kept by into_histogram_data
get(data, key) == IF key \in DOMAIN data.bins THEN data.bins[key] ELSE 0

\* HistogramData::key_range
key_range(data) ==
    IF DOMAIN data.bins = {} THEN None
    ELSE [some |-> TRUE, min |-> MinOfSet(DOMAIN data.bins),
          max |-> MaxOfSet(DOMAIN data.bins)]

\* HistogramChartBuilder::find_key_range
find_key_range(series) ==
    LET ends == UNION {IF key_range(series[i]).some
                       THEN {key_range(series[i]).min, key_range(series[i]).max}
                       ELSE {} : i \in 1..Len(series)}
    IN IF ends = {} THEN None
       ELSE [some |-> TRUE, min |-> MinOfSet(ends), max |-> MaxOfSet(ends)]

\* the key range of IndividualHistogramBuilder::build
individual_key_range(singles, averages) ==
    LET range1 == key_range(singles)
        range2 == key_range(averages)
    IN IF range1.some /\ range2.some
       THEN [some |-> TRUE, min |-> IF range1.min <= range2.min THEN range1.min ELSE range2.min,
             max |-> MaxOf(range1.max, range2.max)]
       ELSE IF range1.some THEN range1
       ELSE IF range2.some THEN range2
       ELSE None

\* one ChartPoint per key, holding one value per series
ChartPoints(ks, series) ==
    [k \in 1..Len(ks) |->
       [name |-> ToString(ks[k]),
        values |-> [i \in 1..Len(series) |-> [num |-> get(series[i], ks[k]), den |-> 1]]]]

\* a HistogramData over the given bucket keys
HistogramDataOver(ks) ==
    [bins |-> [k \in ks |-> ((k \div 10) % 7) + 1], sample_count |-> 100]

\* bucket keys of a centisecond histogram: multiples of 10
KeySetsCs == {{}, {100, 130}, {10}, {1000, 1000 + 10 * MaxSpread}}

\* bucket keys of a move-count single histogram: whole moves
KeySetsFmcSingle == {{}, {2000, 2200}, {100}, {2500, 2600}}

\* bucket keys of a move-count average histogram: thirds of a move, or any
\* value when results were entered by hand
KeySetsFmcAverage == {{}, {2433, 2500}, {2467}, {2450, 2500}, {33, 100}, {2400, 2450}}

KeySets(fmc, average) ==
    IF ~fmc THEN KeySetsCs ELSE IF average THEN KeySetsFmcAverage ELSE KeySetsFmcSingle

\* the builders a chart is made from: create_full_histogram_chart for the
\* single or the average histograms of up to two contestants, and
\* create_individual_histogram_chart for the two histograms of one
ChartBuilders ==
    {[kind |-> "full", series |-> [i \in 1..n |-> HistogramDataOver(ks[i])],
      is_fmc |-> fmc, is_average |-> average] :
        <<n, fmc, average, ks>> \in
           UNION {{<<n, fmc, average, ks>> : ks \in [1..n -> KeySets(fmc, average)]} :
                     <<n, fmc, average>> \in (0..2) \X BOOLEAN \X BOOLEAN}}
    \cup
    {[kind |-> "individual", singles |-> HistogramDataOver(k1),
      averages |-> HistogramDataOver(k2), is_fmc |-> fmc] :
        <<fmc, k1, k2>> \in
           UNION {{fmc} \X KeySets(fmc, FALSE) \X KeySets(fmc, TRUE) : fmc \in BOOLEAN}}

InitChart ==
    /\ builder \in ChartBuilders
    /\ key_iter = None
    /\ keys = <<>>
    /\ chart = <<>>
    /\ chart_pc = "build"
    /\ RunIdle
    /\ LoadIdle
    /\ MergeIdle
    /\ IdIdle
    /\ StatIdle

SeriesLabels(series) == [i \in 1..Len(series) |-> CompetitorName(i)]

\* HistogramChartBuilder::build up to the creation of the key iterator
BuildStart ==
    /\ chart_pc = "build"
    /\ builder.kind = "full"
    /\ LET range == find_key_range(builder.series)
           new == IF range.some
                  THEN HistogramKeys_new(range.min, range.max,
                                         builder.is_fmc, builder.is_average)
                  ELSE None
       IN IF builder.series = <<>>
          THEN /\ chart' = [labels |-> <<>>, data |-> <<>>]
               /\ chart_pc' = "done"
               /\ UNCHANGED key_iter
          ELSE IF ~new.some
          THEN /\ chart' = [labels |-> SeriesLabels(builder.series), data |-> <<>>]
               /\ chart_pc' = "done"
               /\ UNCHANGED key_iter
          ELSE /\ key_iter' = new
               /\ chart_pc' = "keys"
               /\ UNCHANGED chart
    /\ UNCHANGED <<builder, keys,
                 runVars, loadVars, mergeVars, idVars, statVars>>

\* IndividualHistogramBuilder::build up to the creation of the key iterator
IndividualStart ==
    /\ chart_pc = "build"
    /\ builder.kind = "individual"
    /\ LET range == individual_key_range(builder.singles, builder.averages)
           new == IF range.some
                  THEN HistogramKeys_new(range.min, range.max, builder.is_fmc, TRUE)
                  ELSE None
       IN IF ~new.some
          THEN /\ chart' = [labels |-> <<"single", "average">>, data |-> <<>>]
               /\ chart_pc' = "done"
               /\ UNCHANGED key_iter
          ELSE /\ key_iter' = new
               /\ chart_pc' = "keys"
               /\ UNCHANGED chart
    /\ UNCHANGED <<builder, keys,
                 runVars, loadVars, mergeVars, idVars, statVars>>

\* one call of HistogramKeys::next by the collecting map
KeysNext ==
    /\ chart_pc = "keys"
    /\ LET r == HistogramKeys_next(key_iter.iter) IN
       IF r.some
       THEN /\ keys' = Append(keys, r.value)
            /\ key_iter' = [key_iter EXCEPT !.iter = r.iter]
            /\ UNCHANGED chart_pc
       ELSE /\ chart_pc' = "collected"
            /\ UNCHANGED <<keys, key_iter>>
    /\ UNCHANGED <<builder, chart,
                 runVars, loadVars, mergeVars, idVars, statVars>>

\* the rest of HistogramChartBuilder::build: raw points, then the merge
BuildFinish ==
    /\ chart_pc = "collected"
    /\ builder.kind = "full"
    /\ chart' = [labels |-> SeriesLabels(builder.series),
                 data |-> maybe_merge_points(ChartPoints(keys, builder.series),
                                             Len(builder.series))]
    /\ chart_pc' = "done"
    /\ UNCHANGED <<builder, key_iter, keys,
                 runVars, loadVars, mergeVars, idVars, statVars>>

\* the rest of IndividualHistogramBuilder::build
IndividualFinish ==
    /\ chart_pc = "collected"
    /\ builder.kind = "individual"
    /\ chart' = [labels |-> <<"single", "average">>,
                 data |-> ChartPoints(keys, <<builder.singles, builder.averages>>)]
    /\ chart_pc' = "done"
    /\ UNCHANGED <<builder, key_iter, keys,
                 runVars, loadVars, mergeVars, idVars, statVars>>

NextChart == BuildStart \/ IndividualStart \/ KeysNext \/ BuildFinish \/ IndividualFinish

SpecChart == InitChart /\ [][NextChart]_vars

(***************************************************************************)
(* SpecId: clean_and_validate_wca_id (wca/validation.rs) applied to one    *)
(* competitor id of a request.  A string is the sequence of its            *)
(* characters; a character is named by a string.                           *)
(***************************************************************************)
AsciiDigits == {"0", "1", "2", "9"}

AsciiUpper == {"A", "B", "C", "D", "S"}

\* characters outside ASCII: two-byte letters with a one-character
\* uppercase form, the two-byte letter whose uppercase form is SS, and a
\* three-byte sign
NonAscii == {"e_acute", "E_ACUTE", "sharp_s", "euro"}

\* the length of a character in UTF-8
Utf8Len(c) == IF c \in {"e_acute", "E_ACUTE", "sharp_s"} THEN 2
              ELSE IF c = "euro" THEN 3 ELSE 1

\* char::to_uppercase
CharToUpper(c) ==
    CASE c = "a" -> <<"A">>
      [] c = "b" -> <<"B">>
      [] c = "c" -> <<"C">>
      [] c = "d" -> <<"D">>
      [] c = "e_acute" -> <<"E_ACUTE">>
      [] c = "sharp_s" -> <<"S", "S">>
      [] OTHER -> <<c>>

\* str::to_uppercase
RECURSIVE to_uppercase(_)
to_uppercase(str) ==
    IF str = <<>> THEN <<>> ELSE CharToUpper(Head(str)) \o to_uppercase(Tail(str))

\* str::len: the number of bytes
RECURSIVE ByteLen(_)
ByteLen(str) == IF str = <<>> THEN 0 ELSE Utf8Len(Head(str)) + ByteLen(Tail(str))

is_ascii_digit(c) == c \in AsciiDigits

is_ascii_uppercase(c) == c \in AsciiUpper

\* chars[from..to] of a Vec<char>, from and to counted from 0: the slice,
\* or a panic when to is beyond the length
Slice(chars, from, to) ==
    IF to > Len(chars) THEN [panic |-> TRUE]
    ELSE [panic |-> FALSE, items |-> {chars[i] : i \in (from + 1)..to}]

\* clean_and_validate_wca_id: Some(id), None, or a panic
clean_and_validate_wca_id(id) ==
    LET id_upper == to_uppercase(id)
        chars == id_upper
        year == Slice(chars, 0, 4)
        name == Slice(chars, 4, 8)
        number == Slice(chars, 8, 10)
    IN IF ByteLen(id_upper) # 10 THEN [panic |-> FALSE, some |-> FALSE]
       ELSE IF year.panic THEN [panic |-> TRUE]
       ELSE IF ~(\A c \in year.items : is_ascii_digit(c)) THEN [panic |-> FALSE, some |-> FALSE]
       ELSE IF name.panic THEN [panic |-> TRUE]
       ELSE IF ~(\A c \in name.items : is_ascii_uppercase(c))
       THEN [panic |-> FALSE, some |-> FALSE]
       ELSE IF number.panic THEN [panic |-> TRUE]
       ELSE IF ~(\A c \in number.items : is_ascii_digit(c))
       THEN [panic |-> FALSE, some |-> FALSE]
       ELSE [panic |-> FALSE, some |-> TRUE, id |-> id_upper]

\* the ids of a request: a year part, a name part and a number part, each
\* well-formed or not
YearParts == {<<"2", "0", "1", "9">>, <<"2", "0", "1">>, <<"2", "0", "1", "a">>,
              <<"e_acute", "0", "1", "9">>, <<>>}

NameParts == {<<"A", "B", "C", "D">>, <<"a", "b", "c", "d">>, <<"A", "b", "C", "d">>,
              <<"A", "B", "1", "D">>, <<"A", "B", "C">>, <<"A", "B", "sharp_s">>,
              <<"A", "B", "C", "E_ACUTE">>, <<"euro", "euro">>}

NumberParts == {<<"0", "1">>, <<"0">>, <<"0", "1", "2">>, <<"e_acute">>, <<"E_ACUTE">>,
                <<"sharp_s">>, <<"a", "1">>, <<"0", "e_acute">>, <<>>}

WcaIds == {y \o n \o d : <<y, n, d>> \in YearParts \X NameParts \X NumberParts}

InitId ==
    /\ wca_id \in WcaIds
    /\ cleaned = <<>>
    /\ id_pc = "start"
    /\ RunIdle
    /\ LoadIdle
    /\ MergeIdle
    /\ ChartIdle
    /\ StatIdle

\* validate_competitor_ids: one call of clean_and_validate_wca_id
ValidateId ==
    /\ id_pc = "start"
    /\ LET r == clean_and_validate_wca_id(wca_id) IN
       IF r.panic
       THEN /\ id_pc' = "panicked"
            /\ UNCHANGED cleaned
       ELSE /\ id_pc' = "returned"
            /\ cleaned' = r
    /\ UNCHANGED <<wca_id, runVars, loadVars, mergeVars, chartVars,
                 statVars>>

NextId == ValidateId

SpecId == InitId /\ [][NextId]_vars

(***************************************************************************)
(* SpecStats: calc_weighted_stats, trim_outliers and fit_weighted_skewnorm *)
(* (competitor/statistics.rs) on (value, weight) samples, in f32           *)
(* arithmetic: every operation rounds its exact result to a 24 bit         *)
(* mantissa, ties to even.  A finite f32 is sign * m * 2^e with m = 0 or   *)
(* 2^23 <= m < 2^24; the exponent range is not limited and zero has no     *)
(* sign.                                                                   *)
(***************************************************************************)
F32Fin(s, m, e) == [k |-> "fin", s |-> s, m |-> m, e |-> e]

F32Zero == F32Fin(1, 0, 0)

F32One == F32Fin(1, Pow2(23), -23)

F32Two == F32Fin(1, Pow2(23), -22)

F32Inf(s) == [k |-> "inf", s |-> s, m |-> 0, e |-> 0]

F32NaN == [k |-> "nan", s |-> 1, m |-> 0, e |-> 0]

RECURSIVE BitLen(_)
\* number of binary digits of n
BitLen(n) == IF n = 0 THEN 0 ELSE 1 + BitLen(n \div 2)

\* the f32 nearest to s * n * 2^e, ties to even; when the exact value has
\* more digits than n, n has at least 26 digits and its last digit is set
F32Round(s, n, e) ==
    IF n = 0 THEN F32Zero
    ELSE LET len == BitLen(n) IN
         IF len <= 24
         THEN F32Fin(s, n * Pow2(24 - len), e - (24 - len))
         ELSE LET sh == len - 24
                  q == n \div Pow2(sh)
                  r == n % Pow2(sh)
                  half_ulp == Pow2(sh - 1)
                  up == r > half_ulp \/ (r = half_ulp /\ q % 2 = 1)
                  m == IF up THEN q + 1 ELSE q
              IN  IF m = Pow2(24)
                  THEN F32Fin(s, Pow2(23), e + sh + 1)
                  ELSE F32Fin(s, m, e + sh)

\* `val as f32`
F32FromInt(v) == F32Round(IF v < 0 THEN -1 ELSE 1, IF v < 0 THEN -v ELSE v, 0)

F32IsZero(x) == x.k = "fin" /\ x.m = 0

F32Neg(x) == IF x.k = "nan" \/ F32IsZero(x) THEN x ELSE [x EXCEPT !.s = -x.s]

\* the sum of two finite non-zero values, a.e >= b.e
F32AddFinite(a, b) ==
    LET d == a.e - b.e IN
    IF d <= 6
    THEN LET n == a.s * a.m * Pow2(d) + b.s * b.m IN
         F32Round(IF n < 0 THEN -1 ELSE 1, IF n < 0 THEN -n ELSE n, b.e)
    ELSE LET y == b.m * 32
             tail == IF d >= 30 THEN 1
                     ELSE 2 * (y \div Pow2(d))
                          + (IF y % Pow2(d) = 0 THEN 0 ELSE 1)
         IN  F32Round(a.s, a.m * 64 + a.s * b.s * tail, a.e - 6)

\* x + y
F32Add(x, y) ==
    IF x.k = "nan" \/ y.k = "nan" THEN F32NaN
    ELSE IF x.k = "inf"
         THEN IF y.k = "inf" /\ y.s # x.s THEN F32NaN ELSE x
    ELSE IF y.k = "inf" THEN y
    ELSE IF x.m = 0 THEN y
    ELSE IF y.m = 0 THEN x
    ELSE IF x.e >= y.e THEN F32AddFinite(x, y) ELSE F32AddFinite(y, x)

\* x - y
F32Sub(x, y) == F32Add(x, F32Neg(y))

\* x * y
F32Mul(x, y) ==
    IF x.k = "nan" \/ y.k = "nan" THEN F32NaN
    ELSE IF x.k = "inf" \/ y.k = "inf"
         THEN IF F32IsZero(x) \/ F32IsZero(y) THEN F32NaN
              ELSE F32Inf(x.s * y.s)
    ELSE IF x.m = 0 \/ y.m = 0 THEN F32Zero
    ELSE LET h1 == x.m \div 4096
             l1 == x.m % 4096
             h2 == y.m \div 4096
             l2 == y.m % 4096
             mid == h1 * l2 + l1 * h2
             low == (mid % 4096) * 4096 + l1 * l2
             lo == low % Pow2(24)
             hi == h1 * h2 + mid \div 4096 + low \div Pow2(24)
             n == 2 * (hi * 32 + lo \div Pow2(19))
                  + (IF lo % Pow2(19) = 0 THEN 0 ELSE 1)
         IN  F32Round(x.s * y.s, n, x.e + y.e + 18)

RECURSIVE DivBits(_, _, _, _)
\* n more binary digits of the quotient q with remainder r by d
DivBits(q, r, d, n) ==
    IF n = 0 THEN <<q, r>>
    ELSE IF 2 * r >= d
         THEN DivBits(2 * q + 1, 2 * r - d, d, n - 1)
         ELSE DivBits(2 * q, 2 * r, d, n - 1)

\* x / y
F32Div(x, y) ==
    IF x.k = "nan" \/ y.k = "nan" THEN F32NaN
    ELSE IF x.k = "inf"
         THEN IF y.k = "inf" THEN F32NaN ELSE F32Inf(x.s * y.s)
    ELSE IF y.k = "inf" THEN F32Zero
    ELSE IF y.m = 0
         THEN IF x.m = 0 THEN F32NaN ELSE F32Inf(x.s)
    ELSE IF x.m = 0 THEN F32Zero
    ELSE LET qr == DivBits(x.m \div y.m, x.m % y.m, y.m, 26)
             n == 2 * qr[1] + (IF qr[2] = 0 THEN 0 ELSE 1)
         IN  F32Round(x.s * y.s, n, x.e - y.e - 27)

RECURSIVE SqrtBits(_, _, _, _, _)
\* the binary digits of the square root p with remainder r, taking the
\* lowest i digit pairs of m and then z zero pairs
SqrtBits(p, r, m, i, z) ==
    IF i = 0 /\ z = 0 THEN <<p, r>>
    ELSE LET pair == IF i > 0 THEN (m \div Pow2(2 * (i - 1))) % 4 ELSE 0
             r4 == 4 * r + pair
             t == 4 * p + 1
             i2 == IF i > 0 THEN i - 1 ELSE 0
             z2 == IF i > 0 THEN z ELSE z - 1
         IN  IF r4 >= t THEN SqrtBits(2 * p + 1, r4 - t, m, i2, z2)
                        ELSE SqrtBits(2 * p, r4, m, i2, z2)

\* x.sqrt()
F32Sqrt(x) ==
    IF x.k = "nan" THEN F32NaN
    ELSE IF F32IsZero(x) THEN F32Zero
    ELSE IF x.s < 0 THEN F32NaN
    ELSE IF x.k = "inf" THEN x
    ELSE LET odd == x.e % 2 = 1
             mm == IF odd THEN 2 * x.m ELSE x.m
             ee == IF odd THEN x.e - 1 ELSE x.e
             pr == SqrtBits(0, 0, mm, 13, 14)
             n == 2 * pr[1] + (IF pr[2] = 0 THEN 0 ELSE 1)
         IN  F32Round(1, n, (ee \div 2) - 15)

\* x == y
F32Eq(x, y) == x.k # "nan" /\ y.k # "nan" /\ x = y

\* x < y
F32Lt(x, y) ==
    /\ x.k # "nan"
    /\ y.k # "nan"
    /\ x # y
    /\ LET below(a, b) ==    \* |a| < |b|, a # b
               \/ b.k = "inf"
               \/ a.k = "fin" /\ a.m = 0
               \/ /\ a.k = "fin"
                  /\ b.m # 0
                  /\ a.e < b.e \/ (a.e = b.e /\ a.m < b.m)
       IN  IF F32IsZero(x) THEN y.s > 0
           ELSE IF F32IsZero(y) THEN x.s < 0
           ELSE IF x.s # y.s THEN x.s < 0
           ELSE IF x.s > 0 THEN below(x, y) ELSE below(y, x)

\* x <= y
F32Le(x, y) == F32Lt(x, y) \/ F32Eq(x, y)

I32_MAX == 2147483647

\* `x as i32`: toward zero, saturating, NaN to 0
F32ToI32(x) ==
    IF x.k = "nan" THEN 0
    ELSE IF x.k = "inf" THEN x.s * I32_MAX
    ELSE IF x.m = 0 THEN 0
    ELSE IF x.e >= 8 THEN x.s * I32_MAX
    ELSE IF x.e >= 0 THEN x.s * x.m * Pow2(x.e)
    ELSE IF x.e <= -24 THEN 0
    ELSE x.s * (x.m \div Pow2(-x.e))

RECURSIVE F32Sum(_)
\* iter().sum::<f32>(): the terms added from the first to the last
F32Sum(terms) ==
    IF terms = <<>> THEN F32Zero
    ELSE LET front == SubSeq(terms, 1, Len(terms) - 1) IN
         F32Add(F32Sum(front), terms[Len(terms)])

\* WeightedStats::default()
WeightedStatsZero ==
    [mean |-> F32Zero, variance |-> F32Zero, stdev |-> F32Zero]

\* calc_weighted_stats on samples <<value, weight>> with f32 weights
calc_weighted_stats_f32(data) ==
    IF data = <<>> THEN WeightedStatsZero
    ELSE LET n == Len(data)
             total_weight == F32Sum([i \in 1..n |-> data[i][2]])
         IN
         IF F32Le(total_weight, F32Zero) THEN WeightedStatsZero
         ELSE LET weighted_sum ==
                      F32Sum([i \in 1..n |->
                                F32Mul(F32FromInt(data[i][1]), data[i][2])])
                  mean == F32Div(weighted_sum, total_weight)
                  sq_diff(i) ==
                      LET diff == F32Sub(F32FromInt(data[i][1]), mean) IN
                      F32Mul(data[i][2], F32Mul(diff, diff))
                  weighted_sq_diff == F32Sum([i \in 1..n |-> sq_diff(i)])
                  variance ==
                      IF n > 1
                      THEN LET sum_sq ==
                                   F32Sum([i \in 1..n |->
                                             F32Mul(data[i][2], data[i][2])])
                               effective_n ==
                                   F32Div(F32Mul(total_weight, total_weight),
                                          sum_sq)
                           IN  F32Div(weighted_sq_diff,
                                      F32Div(F32Mul(total_weight,
                                                    F32Sub(effective_n,
                                                           F32One)),
                                             effective_n))
                      ELSE F32Zero
              IN  [mean |-> mean, variance |-> variance,
                   stdev |-> F32Sqrt(variance)]

\* trim_outliers with the f32 statistics
trim_outliers_f32(data, stats) ==
    LET threshold == F32ToI32(F32Add(stats.mean, F32Mul(stats.stdev, F32Two)))
        keep(entry) == entry[1] <= threshold
    IN  SelectSeq(data, keep)

\* fit_weighted_skewnorm: degenerate stands for alpha = 0, omega = 1 and
\* xi = mean; otherwise the parameters come from the moments of the data,
\* omega being at least the standard deviation
fit_weighted_skewnorm_f32(data) ==
    LET stats == calc_weighted_stats_f32(data) IN
    [degenerate |-> F32Eq(stats.stdev, F32Zero),
     mean |-> stats.mean,
     variance |-> stats.variance]

\* the largest number of samples of one contestant
MaxSamples == 2

\* the weight of a result 13 days old at the half-life 180
W13 == F32Fin(1, 15958014, -24)

\* the weight of a result 25 half-lives old
WOld == F32Fin(1, 16777207, -49)

\* results of 0.03, 1 and 100 seconds
SampleValues == {3, 100, 10000}

\* weights of results of today, 13 days, 25 half-lives and beyond the
\* range of exp
SampleWeights == {F32One, W13, WOld, F32Zero}

\* three results of 1 second and one of 100, all of today
ScenarioOutlier ==
    <<<<100, F32One>>, <<100, F32One>>, <<100, F32One>>, <<10000, F32One>>>>

SampleSets ==
    UNION {[1..n -> SampleValues \X SampleWeights] : n \in 0..MaxSamples}
    \cup {ScenarioOutlier}

InitStats ==
    /\ samples \in SampleSets
    /\ sample_stats = <<>>
    /\ trimmed_data = <<>>
    /\ fit = <<>>
    /\ stat_pc = "start"
    /\ RunIdle
    /\ LoadIdle
    /\ MergeIdle
    /\ ChartIdle
    /\ IdIdle

\* calculate_stats: the statistics of the valid times
CalcStats ==
    /\ stat_pc = "start"
    /\ sample_stats' = calc_weighted_stats_f32(samples)
    /\ stat_pc' = "stats"
    /\ UNCHANGED <<samples, trimmed_data, fit>>
    /\ UNCHANGED <<runVars, loadVars, mergeVars, chartVars, idVars>>

\* calculate_stats: the valid times without the outliers
TrimOutliers ==
    /\ stat_pc = "stats"
    /\ trimmed_data' = trim_outliers_f32(samples, sample_stats)
    /\ stat_pc' = "trimmed"
    /\ UNCHANGED <<samples, sample_stats, fit>>
    /\ UNCHANGED <<runVars, loadVars, mergeVars, chartVars, idVars>>

\* calculate_stats: the distribution fitted to the trimmed times
FitSkewnorm ==
    /\ stat_pc = "trimmed"
    /\ fit' = fit_weighted_skewnorm_f32(trimmed_data)
    /\ stat_pc' = "fitted"
    /\ UNCHANGED <<samples, sample_stats, trimmed_data>>
    /\ UNCHANGED <<runVars, loadVars, mergeVars, chartVars, idVars>>

NextStats == CalcStats \/ TrimOutliers \/ FitSkewnorm

SpecStats == InitStats /\ [][NextStats]_vars

(***************************************************************************)
(* Properties                                                              *)
(***************************************************************************)
\* a solve counts as DNF when it is at or above the sentinel, the test
\* calculate_average and simulate_round apply to solves
IsDnfSolve(x) == x >= DNF_VALUE

NumDnf(s) == Cardinality({i \in 1..SOLVES_LEN : IsDnfSolve(s[i])})

RECURSIVE MaxSeq(_)
MaxSeq(s) == IF Len(s) = 1 THEN s[1]
             ELSE LET m == MaxSeq(Tail(s)) IN IF s[1] >= m THEN s[1] ELSE m

Returned == pc = "returned"

Ranked == pc \in {"next_trial", "finalize", "done"}

\* C1: after every completed trial k the win (rank 0) counts of all
\* contestants sum to k, and after the run the win chances sum to 1
C1_WinsSumToTrials ==
    /\ SumSeq([i \in 1..Len(competitors) |-> ranks[i][1]]) = trial
    /\ pc = "done" =>
         /\ \A i \in 1..Len(results) : results[i].denominator = simulation_count
         /\ SumSeq([i \in 1..Len(results) |-> results[i].win_chance]) = simulation_count

\* C1 witness: a finished two-trial run of two contestants whose last trial
\* was an all-DNF tie
C1_Witness ==
    /\ pc = "done"
    /\ Len(competitors) = 2
    /\ trial = 2
    /\ round_results[1][2] = DNF_VALUE
    /\ round_results[2][2] = DNF_VALUE

\* C2: after every completed trial k each contestant's rank-count vector has
\* one entry per contestant and sums to k, so the rank distribution sums to 1
C2_RankCountsSumToTrials ==
    /\ \A i \in 1..Len(competitors) :
         /\ Len(ranks[i]) = Len(competitors)
         /\ SumSeq(ranks[i]) = trial
    /\ pc = "done" =>
         \A i \in 1..Len(results) :
            SumSeq(results[i].rank_distribution) = results[i].denominator

\* C2 witness: a finished run in which the first of two contestants was
\* ranked first once and second once
C2_Witness ==
    /\ pc = "done"
    /\ Len(competitors) = 2
    /\ ranks[1] = <<1, 1>>

C4_Ao5DnfIffThree ==
    (Returned /\ event_type = "Ao5") => (avg = DNF_VALUE <=> NumDnf(solves) >= 3)

\* C4 amended: an Ao5 result is DNF iff at least 2 of the 5 solves are DNF
C4_Ao5DnfIffTwo ==
    (Returned /\ event_type = "Ao5") => (avg = DNF_VALUE <=> NumDnf(solves) >= 2)

\* C4 witness: an Ao5 round with exactly two DNF solves returned DNF
C4_Witness ==
    /\ Returned
    /\ event_type = "Ao5"
    /\ NumDnf(solves) = 2
    /\ avg = DNF_VALUE

\* C5: a Bo3 (Bo5) result is DNF iff all three (five) counted solves are DNF,
\* and is otherwise the minimum of the non-DNF counted solves
C5_BestOfDnfIffAll ==
    (Returned /\ event_type \in {"Bo3", "Bo5"}) =>
      LET n == IF event_type = "Bo3" THEN 3 ELSE 5
          valid == {solves[i] : i \in {k \in 1..n : ~IsDnfSolve(solves[k])}}
      IN /\ avg = DNF_VALUE <=> valid = {}
         /\ valid # {} => avg = MinOfSet(valid)

\* C6: an Ao5 result that is not DNF is the truncated mean of the five
\* solves without the best and the worst one, whatever order they came in
C6_Ao5MiddleThree ==
    (Returned /\ event_type = "Ao5" /\ avg # DNF_VALUE) =>
      avg = (SumSeq(solves) - MinSeq(solves) - MaxSeq(solves)) \div 3

\* C6 witness: an Ao5 round given with a DNF first and no other DNF, whose
\* middle three do not divide by 3, returned a result
C6_Witness ==
    /\ Returned
    /\ event_type = "Ao5"
    /\ avg # DNF_VALUE
    /\ Len(competitors[1].entered_results) >= 1
    /\ competitors[1].entered_results[1] < 0
    /\ NumDnf(solves) = 1
    /\ (SumSeq(solves) - MinSeq(solves) - MaxSeq(solves)) % 3 # 0

\* C7: a Mo3 result is DNF if any of the three solves is DNF and otherwise
\* the truncated mean of the three, with no adjustment
C7_Mo3Mean ==
    (Returned /\ event_type = "Mo3") =>
      IF \E i \in 1..3 : IsDnfSolve(solves[i])
      THEN avg = DNF_VALUE
      ELSE avg = (solves[1] + solves[2] + solves[3]) \div 3

\* C7 witness: a Mo3 round without DNF returned a mean ending in 6
C7_Witness ==
    /\ Returned
    /\ event_type = "Mo3"
    /\ \A i \in 1..3 : ~IsDnfSolve(solves[i])
    /\ avg % 10 = 6

\* C8: a move-count result of three non-DNF solves is the truncated mean
\* plus 1 exactly when the truncated mean ends in 66, else the truncated mean
C8_FmcNudgeAt66 ==
    (Returned /\ event_type = "Fmc" /\ \A i \in 1..3 : ~IsDnfSolve(solves[i])) =>
      LET mean == (solves[1] + solves[2] + solves[3]) \div 3 IN
      avg = IF mean % 100 = 66 THEN mean + 1 ELSE mean

\* C9: at every solve position below the solve count a nonzero override
\* fixes the solve without a draw, a zero or missing override gives a draw
\* when stats are present and DNF otherwise; positions at or beyond the
\* solve count keep DNF and never draw
C9_OverridesAndDraws ==
    LET comp == competitors[1]
        er == comp.entered_results
        count == IF event_type \in {"Ao5", "Bo5"} THEN 5 ELSE 3
    IN pc = "solve" =>
         \A p \in 1..SOLVES_LEN :
            IF p <= pos
            THEN LET m == IF p <= Len(er) THEN er[p] ELSE 0 IN
                 /\ p <= count
                 /\ m < 0 => (solves[p] = DNF_VALUE /\ drawn[p] = 0)
                 /\ m > 0 => (solves[p] = m /\ drawn[p] = 0)
                 /\ (m = 0 /\ comp.stats.some) =>
                       /\ drawn[p] >= 1
                       /\ solves[p] = IF event_type = "Fmc" THEN drawn[p] * 100 ELSE drawn[p]
                 /\ (m = 0 /\ ~comp.stats.some) => (solves[p] = DNF_VALUE /\ drawn[p] = 0)
            ELSE solves[p] = DNF_VALUE /\ drawn[p] = 0

\* C9 witness: a Bo3 round of a contestant with stats finished its loop with
\* a forced DNF, a draw and a forced value, overrides beyond position 2 unused
C9_Witness ==
    /\ pc = "solve"
    /\ event_type = "Bo3"
    /\ pos = 3
    /\ competitors[1].stats.some
    /\ competitors[1].entered_results = <<-1, 0, 16, 400000, 16>>
    /\ drawn[2] >= 1

\* C10: a contestant without stats and without overrides has a DNF round
\* result in every trial, nothing in either histogram, and as the sole
\* contestant win chance 1, expected rank 1 and sample size 0
C10_NoDataAlwaysDnf ==
    \A i \in 1..Len(competitors) :
       (~competitors[i].stats.some /\ competitors[i].entered_results = <<>>) =>
          /\ hist_single[i] = EmptyHist
          /\ hist_average[i] = EmptyHist
          /\ \A j \in 1..Len(round_results) :
                round_results[j][1] = i - 1 => round_results[j][2] = DNF_VALUE
          /\ (pc = "done" /\ Len(competitors) = 1) =>
                /\ results[1].denominator > 0
                /\ results[1].win_chance = results[1].denominator
                /\ results[1].expected_rank = results[1].denominator
                /\ results[1].sample_size = 0

\* C10 witness: a finished two-trial run of a sole contestant without data
C10_Witness ==
    /\ pc = "done"
    /\ Len(competitors) = 1
    /\ ~competitors[1].stats.some
    /\ competitors[1].entered_results = <<>>
    /\ trial = 2


\* C11: in a mean-of-3 run of two contestants, one with entered results
\* 1000, 1000, 1000 and one with neither entered results nor fitted
\* statistics, the first has round result 1000 and the second the DNF value
\* in every trial, and the first is ranked first in every trial and ends with
\* a win chance of 1, in either roster order
C11_OverriddenBeatsNoData ==
    (event_type = "Mo3" /\ Len(competitors) = 2) =>
      \A x, y \in 1..2 :
        (competitors[x] = ManualOnly /\ competitors[y] = NoData) =>
          /\ \A k \in 1..Len(round_results) :
                /\ round_results[k][1] = x - 1 => round_results[k][2] = 1000
                /\ round_results[k][1] = y - 1 => round_results[k][2] = DNF_VALUE
          /\ ranks[x] = <<trial, 0>>
          /\ ranks[y] = <<0, trial>>
          /\ pc = "done" => /\ results[x].win_chance = results[x].denominator
                            /\ results[y].win_chance = 0

\* C11 witness: a finished two-trial mean-of-3 run with the contestant
\* without data first in the roster and the overridden one second
C11_Witness ==
    /\ pc = "done"
    /\ event_type = "Mo3"
    /\ simulation_count = 2
    /\ competitors = <<NoData, ManualOnly>>
    /\ results[2].win_chance = 2


\* sum of the values of a histogram
RECURSIVE SumHist(_)
SumHist(h) ==
    IF DOMAIN h = {} THEN 0
    ELSE LET k == CHOOSE x \in DOMAIN h : TRUE IN
         h[k] + SumHist([j \in DOMAIN h \ {k} |-> h[j]])

\* C12: for every contestant the retained buckets of the finalized
\* single-result histogram sum to at most 100 percent, and so do those of
\* the finalized final-result histogram (values are numerators over the
\* sample count)
C12_HistogramsAtMost100 ==
    pc = "done" =>
      \A i \in 1..Len(sim_results) :
        /\ SumHist(sim_results[i].hist_single.bins)
             <= 100 * sim_results[i].hist_single.sample_count
        /\ SumHist(sim_results[i].hist_average.bins)
             <= 100 * sim_results[i].hist_average.sample_count

\* C12 witness: a finished run of a 3-solve format in which a contestant had
\* every solve of every trial recorded, so that the single-result histogram
\* sums to 99 percent and the final-result histogram to 100
C12_Witness ==
    /\ pc = "done"
    /\ num_solves(event_type) = 3
    /\ simulation_count = 2
    /\ \E i \in 1..Len(sim_results) :
         /\ SumHist(sim_results[i].hist_single.bins) = 99 * simulation_count
         /\ SumHist(sim_results[i].hist_average.bins) = 100 * simulation_count


\* C19: after any number of trials the counts of a contestant's
\* single-result histogram sum to the number of solve positions at which a
\* value was generated and was not DNF; overridden positions add nothing, so
\* a contestant with every position of the format overridden has an empty
\* single-result histogram
C19_SingleHistCountsDraws ==
    \A i \in 1..Len(competitors) :
      LET comp == competitors[i]
          forced == {p \in 1..SOLVES_LEN : ManualTime(comp, p - 1) # 0}
          free == (1..num_solves(event_type)) \ forced
          rounds == trial + (IF pc = "rounds" /\ i <= idx THEN 1 ELSE 0)
      IN /\ SumHist(hist_single[i]) = generated_count[i]
         /\ generated_count[i] <= Cardinality(free) * rounds
         /\ free = {} => hist_single[i] = EmptyHist

\* C19 witness: two finished trials of an Ao5 contestant with fitted
\* statistics, one override and one forced DNF, one trial with the three
\* free positions drawn as DNF and one with three values recorded
C19_Witness ==
    /\ pc = "done"
    /\ event_type = "Ao5"
    /\ competitors = <<PartlyManual>>
    /\ simulation_count = 2
    /\ generated_count[1] = 3
    /\ \E k \in DOMAIN hist_single[1] : hist_single[1][k] = 3


\* C20: a contestant's round result is recorded into the final-result
\* histogram exactly when it is not the DNF value, so the counts of that
\* histogram sum to the number of rounds whose result was not DNF, and no
\* bucket is the DNF value or the bucket the DNF value would fall into
C20_AverageHistCountsNonDnf ==
    \A i \in 1..Len(competitors) :
       /\ SumHist(hist_average[i]) = finished_count[i]
       /\ DNF_VALUE \notin DOMAIN hist_average[i]
       /\ truncate_for_histogram(DNF_VALUE, is_fmc(event_type)) \notin DOMAIN hist_average[i]
       /\ (pc \in {"next_trial", "finalize", "done"} /\ Len(competitors) = 1) =>
             (round_results[1][2] = DNF_VALUE =>
                 finished_count[1] < trial)

\* C20 witness: a finished two-trial run with DNF modelling in which the
\* contestant had one DNF round and one round with a real result
C20_Witness ==
    /\ pc = "done"
    /\ competitors = <<FittedOnly>>
    /\ include_dnf
    /\ simulation_count = 2
    /\ finished_count[1] = 1
    /\ SumHist(hist_average[1]) = 1


\* C18: after every completed trial the statistics derived from a
\* contestant's rank distribution (first entry, sum of the first three
\* entries, sum of (r + 1) times entry r) equal the counters kept trial by
\* trial (wins, trials with rank < 3, sum of rank + 1), all over the same
\* trial count, and the finalized statistics are those values
C18_RankStatsMatchCounters ==
    Ranked =>
      \A i \in 1..Len(competitors) :
        LET st == RankStatsOf(ranks[i], simulation_count) IN
        /\ st.win_probability = win_counts[i]
        /\ st.podium_probability = pod_counts[i]
        /\ st.expected_rank = total_ranks[i]
        /\ pc = "done" => sim_results[i].rank_stats = st

\* C18 witness: a finished two-trial run of four contestants in which one
\* contestant won once and finished fourth once
C18_Witness ==
    /\ pc = "done"
    /\ Len(competitors) = 4
    /\ simulation_count = 2
    /\ \E i \in 1..4 : /\ ranks[i] = <<1, 0, 0, 1>>
                        /\ pod_counts[i] = 1
                        /\ total_ranks[i] = 5


\* C17: the rank chart of a finished run has one label per contestant, in
\* roster order, and one point per rank index of the rank distribution (as
\* many as contestants); the point of rank index r is named r + 1 and holds,
\* in roster order, 100 times each contestant's probability of that rank
C17_RankChartShape ==
    pc = "done" =>
      LET n == Len(competitors) IN
      /\ rank_histogram.labels = [i \in 1..n |-> CompetitorName(i)]
      /\ Len(rank_histogram.data) = n
      /\ \A r \in 0..(n - 1) :
            /\ rank_histogram.data[r + 1].name = ToString(r + 1)
            /\ Len(rank_histogram.data[r + 1].values) = n
            /\ \A i \in 1..n :
                  rank_histogram.data[r + 1].values[i] = 100 * ranks[i][r + 1]

\* C17 witness: the chart of a finished two-trial run of two contestants of
\* which the second won one trial and lost the other
C17_Witness ==
    /\ pc = "done"
    /\ Len(competitors) = 2
    /\ simulation_count = 2
    /\ rank_histogram.labels = <<"P1", "P2">>
    /\ rank_histogram.data[1].name = "1"
    /\ rank_histogram.data[1].values = <<100, 100>>
    /\ rank_histogram.data[2].values = <<100, 100>>


\* C16: the merged chart has at most 256 points; up to 256 raw points are
\* returned unchanged; more are merged in consecutive chunks of
\* 2^(ceil(log2(count)) - 8) points, a merged point carrying the name of the
\* first point of its chunk and, per series, the sum of the chunk's values
\* over the chunk's own length
C16_MergedAtMost256 ==
    merge_pc = "merged" =>
      LET n == Len(points)
          l == CHOOSE x \in 0..31 : Pow2(x) >= n /\ (x = 0 \/ Pow2(x - 1) < n)
          size == Pow2(l - 8)
          first(c) == (c - 1) * size + 1
          last(c) == IF c * size < n THEN c * size ELSE n
      IN /\ Len(merged) <= 256
         /\ n <= 256 => merged = points
         /\ n > 256 =>
              /\ Len(merged) * size >= n
              /\ (Len(merged) - 1) * size < n
              /\ \A c \in 1..Len(merged) :
                    /\ merged[c].name = points[first(c)].name
                    /\ \A i \in 1..Len(points[1].values) :
                          /\ merged[c].values[i].den = last(c) - first(c) + 1
                          /\ merged[c].values[i].num =
                               SumSeq([k \in 1..(last(c) - first(c) + 1) |->
                                         points[first(c) + k - 1].values[i].num])

\* C16 witness: 515 raw points of two series merged in chunks of 4 into 129
\* points, the last one averaged over the 3 points left
C16_Witness ==
    /\ merge_pc = "merged"
    /\ Len(points) = 515
    /\ Len(points[1].values) = 2
    /\ Len(merged) = 129
    /\ merged[129].name = "5130"
    /\ merged[129].values[1].den = 3


\* the stats of the competitor built by the load
LoadedStats == loaded.competitors[1].stats

\* the sum of f(value, weight) over every value of every dated set
SumOverResults(f(_, _)) ==
    SumSeq([d \in 1..Len(dated_results) |->
              SumSeq([k \in 1..Len(dated_results[d].results) |->
                        f(dated_results[d].results[k],
                          Weight(dated_results[d].days_since, request.half_life))])])

\* C13: calculate_stats returns no stats exactly when the dated results hold
\* no strictly positive value; otherwise the sample size is the number of
\* strictly positive values, counted before trimming, and the mean is the
\* weighted mean of those values
C13_StatsAbsentOrPreTrim ==
    load_pc = "loaded" =>
      LET Count(v, w) == IF v > 0 THEN 1 ELSE 0
          PosWeight(v, w) == IF v > 0 THEN w ELSE 0
          PosWeighted(v, w) == IF v > 0 THEN v * w ELSE 0
      IN /\ LoadedStats.some <=> SumOverResults(Count) > 0
         /\ LoadedStats.some =>
               /\ LoadedStats.num_non_dnf_results = SumOverResults(Count)
               /\ LoadedStats.mean.num * SumOverResults(PosWeight)
                    = LoadedStats.mean.den * SumOverResults(PosWeighted)

\* C13 witness: a competitor with two recent results of 1000 and an old one
\* of 9000 that the trim removes: sample size 3, mean 17000/9, fit on 1000s
C13_Witness ==
    /\ load_pc = "loaded"
    /\ request.half_life = HalfLife
    /\ dated_results = <<[days_since |-> 0, results |-> <<1000, 1000>>],
                         [days_since |-> AgeSpan * HalfLife, results |-> <<9000>>]>>
    /\ LoadedStats.some
    /\ LoadedStats.num_non_dnf_results = 3
    /\ LoadedStats.mean = [num |-> 17000, den |-> 9]
    /\ LoadedStats.params.mean = [num |-> 8000, den |-> 8]


\* C14: the dnf_rate of the built stats is the weight of the DNF entries
\* over the weight of all entries, an entry being DNF when its value is
\* negative or equal to the DNF value; DNF entries are not among the valid
\* values the fit is made on; and dnf_rate lies between 0 and 1
C14_DnfRateCountsSentinel ==
    load_pc = "loaded" =>
      LET IsDnfEntry(v) == v < 0 \/ v = DNF_VALUE
          DnfWeight(v, w) == IF IsDnfEntry(v) THEN w ELSE 0
          AllWeight(v, w) == w
          Valid(v, w) == IF v > 0 /\ ~IsDnfEntry(v) THEN 1 ELSE 0
      IN /\ LoadedStats.some <=> SumOverResults(Valid) > 0
         /\ LoadedStats.some =>
               /\ LoadedStats.dnf_rate.num * SumOverResults(AllWeight)
                    = LoadedStats.dnf_rate.den * SumOverResults(DnfWeight)
               /\ LoadedStats.num_non_dnf_results = SumOverResults(Valid)
               /\ 0 <= LoadedStats.dnf_rate.num
               /\ LoadedStats.dnf_rate.num <= LoadedStats.dnf_rate.den

\* C15: a request with a zero or negative half-life or an unrecognized
\* event is rejected before any competitor is built
C15_BadRequestRejected ==
    (load_pc # "idle" /\ (request.half_life <= 0 \/ ~from_id(request.event_id).some)) =>
       /\ load_pc \in {"start", "bad_request"}
       /\ loaded = <<>>

\* the bucket keys of all histograms of the chart being built
ChartBucketKeys ==
    IF builder.kind = "full"
    THEN UNION {DOMAIN builder.series[i].bins : i \in 1..Len(builder.series)}
    ELSE DOMAIN builder.singles.bins \cup DOMAIN builder.averages.bins

\* the chart is for move-count results / steps by thirds of a move
ChartIsFmc == builder.is_fmc

ChartIsAverage == builder.kind = "individual" \/ builder.is_average

\* the step of the key sequence: its largest value for average move counts
BucketStep == IF ~ChartIsFmc THEN 10 ELSE IF ChartIsAverage THEN 34 ELSE 100

ChartPad == IF ChartIsFmc THEN 100 ELSE 20

KeysCollected == chart_pc \in {"collected", "done"} /\ keys # <<>>

StrictlyIncreasing(s) == \A i \in 1..(Len(s) - 1) : s[i] < s[i + 1]

\* C21 as stated: the key sequence of a multi-series chart starts one
\* bucket-step below the smallest bucket key of all series, ends one
\* bucket-step above the largest, and is strictly increasing
C21_KeysPadOneStep ==
    (KeysCollected /\ builder.kind = "full") =>
        /\ keys[1] = MinOfSet(ChartBucketKeys) - BucketStep
        /\ keys[Len(keys)] = MaxOfSet(ChartBucketKeys) + BucketStep
        /\ StrictlyIncreasing(keys)

\* C21 amended: the key sequence of a multi-series chart starts at the
\* smallest bucket key minus the pad, but not below 0, ends at its last
\* value not above the largest bucket key plus the pad, and is strictly
\* increasing; the pad is 20 (two steps) for centiseconds and 100 for move
\* counts
C21_KeysPadded ==
    (KeysCollected /\ builder.kind = "full") =>
        /\ keys[1] = MaxOf(MinOfSet(ChartBucketKeys) - ChartPad, 0)
        /\ keys[Len(keys)] <= MaxOfSet(ChartBucketKeys) + ChartPad
        /\ keys[Len(keys)] + BucketStep > MaxOfSet(ChartBucketKeys) + ChartPad
        /\ StrictlyIncreasing(keys)

C21_Witness ==
    /\ chart_pc = "done"
    /\ builder.kind = "full"
    /\ ~builder.is_fmc
    /\ Len(builder.series) = 2
    /\ ChartBucketKeys = {10, 100, 130}
    /\ keys = <<0, 10, 20, 30, 40, 50, 60, 70, 80, 90, 100, 110, 120, 130, 140, 150>>
    /\ Len(chart.data) = 16

\* the arithmetic sequence from first by step up to the last value <= limit
ArithSeq(first, step, limit) ==
    IF first > limit THEN <<>>
    ELSE [i \in 1..(((limit - first) \div step) + 1) |-> first + (i - 1) * step]

\* the padded start of the chart being built is in the residue class
\* HistogramKeys::new accepts
StartAligned ==
    LET start == MaxOf(MinOfSet(ChartBucketKeys) - ChartPad, 0) IN
    IF ChartIsFmc THEN start % 100 \in {0, 33, 67} ELSE start % 10 = 0

\* C22: for an aligned minimum key the keys are exactly the arithmetic
\* sequence from max(0, min - pad) to the last value not above max + pad,
\* with pad 20 and step 10 for centisecond series and pad 100 and step 100
\* for move-count single series
C22_KeysArithmetic ==
    (/\ chart_pc \in {"collected", "done"}
     /\ ChartBucketKeys # {}
     /\ StartAligned
     /\ ~ChartIsFmc \/ ~ChartIsAverage) =>
        LET min == MinOfSet(ChartBucketKeys)
            max == MaxOfSet(ChartBucketKeys)
        IN keys = IF ChartIsFmc THEN ArithSeq(MaxOf(0, min - 100), 100, max + 100)
                  ELSE ArithSeq(MaxOf(0, min - 20), 10, max + 20)

C22_Witness ==
    /\ chart_pc = "done"
    /\ builder.kind = "full"
    /\ builder.is_fmc
    /\ ~builder.is_average
    /\ ChartBucketKeys = {2000, 2200}
    /\ keys = <<1900, 2000, 2100, 2200, 2300>>

\* the keys of a chart that has points: thirds of a move stepping by
\* 33/34/33 for average move counts, multiples of 10 for centiseconds
KeysInResidueClass ==
    chart.data # <<>> =>
        /\ (ChartIsFmc /\ ChartIsAverage) =>
              /\ \A i \in 1..Len(keys) : keys[i] % 100 \in {0, 33, 67}
              /\ \A i \in 1..(Len(keys) - 1) :
                    keys[i + 1] - keys[i] = IF keys[i] % 100 = 33 THEN 34 ELSE 33
        /\ ~ChartIsFmc => \A i \in 1..Len(keys) : keys[i] % 10 = 0
        /\ Len(keys) <= 256 =>
              /\ Len(chart.data) = Len(keys)
              /\ \A i \in 1..Len(keys) : chart.data[i].name = ToString(keys[i])

\* C23 as stated: a chart has no data points exactly when its padded start
\* value is outside the required residue class, and the keys of a chart
\* with points are in the residue class of its kind
C23_NoPointsIffMisaligned ==
    chart_pc = "done" =>
        /\ chart.data = <<>> <=> (ChartBucketKeys # {} /\ ~StartAligned)
        /\ KeysInResidueClass

\* C23 amended: a chart has no data points exactly when no histogram has a
\* bucket or the padded start value is outside the required residue class,
\* and the keys generated for a chart with points are in the residue class
\* of its kind
C23_NoPointsIffEmptyOrMisaligned ==
    chart_pc = "done" =>
        /\ chart.data = <<>> <=> (ChartBucketKeys = {} \/ ~StartAligned)
        /\ KeysInResidueClass

C23_Witness ==
    /\ chart_pc = "done"
    /\ builder.kind = "individual"
    /\ builder.is_fmc
    /\ ChartBucketKeys = {2000, 2200, 2433, 2500}
    /\ Len(chart.data) = 22
    /\ keys[1] = 1900 /\ keys[2] = 1933 /\ keys[3] = 1967 /\ keys[4] = 2000

\* C30: the chart built for one contestant (series single and average)
\* never has more than 256 points
C30_IndividualAtMost256 ==
    (chart_pc = "done" /\ builder.kind = "individual") => Len(chart.data) <= 256

\* the buckets Finalize kept of a histogram of counts are those with a
\* share of at least 0.01% of the trials, each holding 100 * count over the
\* trials (values are numerators over the sample count)
SharePercent(data, counts, n) ==
    /\ DOMAIN data.bins = {k \in DOMAIN counts : counts[k] * 10000 >= n}
    /\ \A k \in DOMAIN data.bins : data.bins[k] = 100 * counts[k]
    /\ data.sample_count = n

\* the buckets kept are those with at least trunc(0.0001 * n) entries, each
\* holding scale * count over the trials
ScaledPercent(data, counts, n, scale) ==
    /\ DOMAIN data.bins = {k \in DOMAIN counts : counts[k] >= n \div 10000}
    /\ \A k \in DOMAIN data.bins : data.bins[k] = scale * counts[k]
    /\ data.sample_count = n

C29_ResultAtMostSentinel ==
    Returned => (avg = DNF_VALUE \/ avg \in 1..(DNF_VALUE - 1))

\* the pattern of a competitor id: 4 digits, 4 uppercase ASCII letters,
\* 2 digits
IsWcaIdPattern(str) ==
    /\ Len(str) = 10
    /\ \A i \in 1..4 : str[i] \in AsciiDigits
    /\ \A i \in 5..8 : str[i] \in AsciiUpper
    /\ \A i \in 9..10 : str[i] \in AsciiDigits

\* C28: clean_and_validate_wca_id returns the upper-cased id exactly when
\* the upper-cased input has the pattern, returns None for every other
\* input without ever failing, and maps its own output to itself
C28_ValidatesPattern ==
    id_pc # "start" =>
        /\ id_pc = "returned"
        /\ cleaned.some <=> IsWcaIdPattern(to_uppercase(wca_id))
        /\ cleaned.some =>
              /\ cleaned.id = to_uppercase(wca_id)
              /\ clean_and_validate_wca_id(cleaned.id) = cleaned

\* the sample set, its statistics and the trimmed set once trim_outliers
\* returned
StatsTrimmed == stat_pc \in {"trimmed", "fitted"}

\* mean + 2 * stdev as the f32 expression of trim_outliers
TrimLimit == F32Add(sample_stats.mean, F32Mul(sample_stats.stdev, F32Two))

NotAboveLimit(entry) == ~F32Lt(TrimLimit, F32FromInt(entry[1]))

\* some entry of samples with this value is missing from trimmed_data
Removed(val) ==
    Cardinality({i \in 1..Len(samples) : samples[i][1] = val})
        > Cardinality({i \in 1..Len(trimmed_data) : trimmed_data[i][1] = val})

\* C25: trim_outliers returns exactly the entries whose value is not greater
\* than mean + 2 * stdev, in their order and with their weights; it removes
\* no entry below the mean, and of three results of 100 and one of 10000 it
\* removes the 10000 only if 10000 exceeds mean + 2 * stdev
C25_TrimKeepsWithinTwoDeviations ==
    StatsTrimmed =>
        /\ trimmed_data = SelectSeq(samples, NotAboveLimit)
        /\ \A i \in 1..Len(samples) :
               F32Lt(F32FromInt(samples[i][1]), sample_stats.mean)
                   => ~Removed(samples[i][1])
        /\ (samples = ScenarioOutlier /\ Removed(10000))
               => F32Lt(TrimLimit, F32FromInt(10000))

SampleValuesOf(data) == {data[i][1] : i \in 1..Len(data)}

\* C26: the mean of samples with positive total weight lies between the
\* smallest and the largest value; empty samples and samples of total
\* weight zero or less have mean, variance and stdev zero; a single sample
\* has variance zero
C26_MeanWithinRange ==
    stat_pc = "stats" =>
        LET total == F32Sum([i \in 1..Len(samples) |-> samples[i][2]]) IN
        /\ (samples # <<>> /\ F32Lt(F32Zero, total))
               => /\ F32Le(F32FromInt(MinOfSet(SampleValuesOf(samples))),
                           sample_stats.mean)
                  /\ F32Le(sample_stats.mean,
                           F32FromInt(MaxOfSet(SampleValuesOf(samples))))
        /\ (samples = <<>> \/ F32Le(total, F32Zero))
               => sample_stats = WeightedStatsZero
        /\ Len(samples) = 1 => sample_stats.variance = F32Zero

\* C27: fit_weighted_skewnorm on data whose values are all the same, on a
\* single sample and on empty data returns the parameters alpha = 0,
\* omega = 1, xi = mean
C27_ZeroVarianceIsDegenerate ==
    (stat_pc = "fitted" /\ Cardinality(SampleValuesOf(trimmed_data)) <= 1)
        => fit.degenerate

====
